---- MODULE Spec2Model ----
(***************************************************************************)
(* A model of ecotrajectory: a Gameboard of Tiles (environments.py) and    *)
(* the Creatures living on it (organisms.py).                              *)
(*                                                                         *)
(* Python floats are modelled as exact rationals [n, d] in lowest terms,   *)
(* so that costs scaled by (1 - efficiency), averages of parents' stats    *)
(* and the division by the power score are computed, not approximated.     *)
(* Floating point rounding is the one thing left out.                      *)
(*                                                                         *)
(* A call that raises leaves the name of the exception in exc; the rest of *)
(* the handler is skipped, as in Python.                                   *)
(***************************************************************************)
EXTENDS Integers, Sequences, FiniteSets, TLC

VARIABLES
    boardsize,          \* Gameboard.boardsize, a pair <<x, y>>
    tile,               \* Gameboard.tile, the prototype Tile
    landscape,          \* Gameboard.landscape: cell -> Tile
    creatures,          \* Gameboard.creatures: the active roster (ids, in order)
    removed_creatures,  \* Gameboard.removed_creatures (ids, in order)
    cr,                 \* every Creature object ever constructed, by id
    exc,                \* the exception the last call raised, or "none"
    log,                \* the calls made inside the last action, in order
    last,               \* the last call: its name, receiver and arguments
    pc,                 \* where Gameboard.play is: "idle", "turns" or "inner"
    snapshot,           \* play: self.creatures.copy()
    slot,               \* play: index of the next creature of the snapshot
    can_act,            \* Herbivore.inner_turn: can_act
    movement_remaining, \* Herbivore.inner_turn: movement_remaining
    did_mate,           \* Herbivore.inner_turn: did_mate
    turns,              \* what this play call did at each slot it has reached
    plays,              \* number of play calls begun
    called              \* the direct calls made: method, creature, exception

vars == <<boardsize, tile, landscape, creatures, removed_creatures, cr, exc,
          log, last, pc, snapshot, slot, can_act, movement_remaining,
          did_mate, turns, plays, called>>

----------------------------------------------------------------------------
(* Bounds of the model *)

MaxCreatures == 3
MaxPlays == 2
MaxCalls == 1
MaxApiCalls == 2
MaxMoves == 3
MaxFixtures == 2
MaxFights == 3
MaxMateCalls == 1
MaxTileCalls == 4
MaxProbes == 2
MaxMutations == 2
MaxRoams == 2
MaxDecays == 2
MaxHunts == 2
MaxStarvePlays == 6
MaxTowards == 3

----------------------------------------------------------------------------
(* Exact rational arithmetic standing for Python's float arithmetic *)

\* Each operand is evaluated once, then the result is computed from its value
RECURSIVE GCD(_, _)
GCD(a, b) ==
    IF b = 0 THEN a
    ELSE CHOOSE g \in {GCD(y, x % y) : x \in {a}, y \in {b}} : TRUE

Abs(n) == IF n < 0 THEN -n ELSE n

Rat(n, d) ==
    CHOOSE q \in {LET s == IF y < 0 THEN -1 ELSE 1
                      g == GCD(Abs(x), Abs(y))
                  IN  [n |-> (s * x) \div g, d |-> (s * y) \div g] :
                  x \in {n}, y \in {d}} : TRUE

Q(n) == [n |-> n, d |-> 1]
Zero == Q(0)
One == Q(1)

\* Common factors are divided out before multiplying, which keeps the
\* intermediate integers small
RAdd(a, b) ==
    CHOOSE q \in {LET g == GCD(x.d, y.d)
                  IN  Rat(x.n * (y.d \div g) + y.n * (x.d \div g),
                          (x.d \div g) * y.d) :
                  x \in {a}, y \in {b}} : TRUE
RNeg(a) == [n |-> -a.n, d |-> a.d]
RSub(a, b) == RAdd(a, RNeg(b))
RMul(a, b) ==
    CHOOSE q \in {LET g1 == GCD(Abs(x.n), y.d)
                      g2 == GCD(Abs(y.n), x.d)
                  IN  Rat((x.n \div g1) * (y.n \div g2),
                          (x.d \div g2) * (y.d \div g1)) :
                  x \in {a}, y \in {b}} : TRUE
RDiv(a, b) == RMul(a, Rat(b.d, b.n))
RLt(a, b) ==
    \E x \in {a}, y \in {b} :
        LET g == GCD(x.d, y.d)
        IN  x.n * (y.d \div g) < y.n * (x.d \div g)
RLe(a, b) ==
    \E x \in {a}, y \in {b} :
        LET g == GCD(x.d, y.d)
        IN  x.n * (y.d \div g) <= y.n * (x.d \div g)
RGt(a, b) == RLt(b, a)
RGe(a, b) == RLe(b, a)
RAbs(a) == [n |-> Abs(a.n), d |-> a.d]
RECURSIVE RSum(_)
RSum(s) ==
    CHOOSE q \in {IF x = <<>> THEN Zero ELSE RAdd(Head(x), RSum(Tail(x))) :
                     x \in {s}} : TRUE

----------------------------------------------------------------------------
(* Class attributes of Creature, Herbivore and Predator *)

EXISTENCE_COST == -5
MOVEMENT_COST == -5
ATTACK_COST == -5
MATING_COST == -50
feed_amount == 10
DECAY_AMOUNT == 10
min_predation_energy == 10

MUTATION_CHANCE == Rat(5, 1000)
MATING_THRESHHOLD == Rat(3, 4)

PERFECT_STATS == <<Q(200), Q(100), Q(50), Rat(1, 2), Rat(1, 2), Q(3), Q(1)>>

\* float('inf'), the upper end of an unbounded range
Inf == [n |-> 1, d |-> 0]

STAT_RANGES ==
    [maxenergy |-> <<Zero, Inf>>, maxvitality |-> <<Zero, Inf>>,
     attack_power |-> <<Zero, Inf>>, defense |-> <<Zero, Rat(8, 10)>>,
     efficiency |-> <<Zero, Rat(8, 10)>>, speed |-> <<Zero, Inf>>,
     fertility |-> <<Zero, One>>, aggression |-> <<Zero, One>>]

STAT_RANDOM ==
    [maxenergy |-> <<Q(10), Q(200)>>, maxvitality |-> <<Zero, Q(100)>>,
     attack_power |-> <<Q(5), Q(50)>>, defense |-> <<Zero, Rat(8, 10)>>,
     efficiency |-> <<Zero, Rat(8, 10)>>, speed |-> <<Q(1), Q(5)>>,
     fertility |-> <<Rat(1, 10), One>>, aggression |-> <<Zero, One>>]

power_stats ==
    <<"maxenergy", "maxvitality", "attack_power", "defense", "efficiency",
      "speed", "fertility">>

mating_stats == Append(power_stats, "aggression")

Range(s) == {s[i] : i \in DOMAIN s}

----------------------------------------------------------------------------
(* environments.py *)

Cells(size) == (0 .. size[1] - 1) \X (0 .. size[2] - 1)

\* Tile.__init__
Tile(max_plant_material, plant_material, plant_growth_rate) ==
    [max_plant_material |-> max_plant_material,
     plant_material |-> plant_material,
     plant_growth_rate |-> plant_growth_rate]

Prarie == Tile(Q(25), Q(10), Q(5))
Forest == Tile(Q(50), Q(20), Q(8))
Desert == Tile(Q(10), Q(5), Q(2))
Wasteland == Tile(Zero, Zero, Zero)

\* Gameboard.create_landscape: a deepcopy of the prototype in every cell
create_landscape(size, t) == [p \in Cells(size) |-> t]

\* pos_is_valid that looks at the first coordinate only
pos_is_valid_x_only(pos) == pos[1] >= 0 /\ pos[1] <= boardsize[1] - 1

\* pos_is_valid taking the size for the largest index
pos_is_valid_wide(pos) ==
    /\ pos[1] >= 0 /\ pos[1] <= boardsize[1]
    /\ pos[2] >= 0 /\ pos[2] <= boardsize[2]

\* Gameboard.pos_is_valid
pos_is_valid(pos) ==
    LET xMax == boardsize[1] - 1
        yMax == boardsize[2] - 1
    IN  IF ~(pos[1] >= 0 /\ pos[1] <= xMax) THEN FALSE
        ELSE IF ~(pos[2] >= 0 /\ pos[2] <= yMax) THEN FALSE
        ELSE TRUE

\* change_plant_amount() without the floor at 0
change_plant_amount_unfloored(t, amount) ==
    LET p == RAdd(t.plant_material, amount)
    IN  IF RGt(p, t.max_plant_material)
            THEN [t EXCEPT !.plant_material = t.max_plant_material]
        ELSE [t EXCEPT !.plant_material = p]

\* Tile.change_plant_amount
change_plant_amount(t, amount) ==
    LET p == RAdd(t.plant_material, amount)
    IN  IF RGt(p, t.max_plant_material)
            THEN [t EXCEPT !.plant_material = t.max_plant_material]
        ELSE IF RLt(p, Zero) THEN [t EXCEPT !.plant_material = Zero]
        ELSE [t EXCEPT !.plant_material = p]

\* Tile.plant_grow
plant_grow(t) == change_plant_amount(t, t.plant_growth_rate)

\* list.remove(x): the sequence without the first occurrence of x
RECURSIVE ListRemove(_, _)
ListRemove(s, x) ==
    IF s = <<>> THEN <<>>
    ELSE IF Head(s) = x THEN Tail(s)
    ELSE <<Head(s)>> \o ListRemove(Tail(s), x)

\* The state the calls below work on
World ==
    [cr |-> cr, creatures |-> creatures,
     removed_creatures |-> removed_creatures, landscape |-> landscape,
     exc |-> "none", log |-> <<>>, ret |-> FALSE]

Raise(w, e) == [w EXCEPT !.exc = e]
Note(w, event) == [w EXCEPT !.log = Append(@, event)]

\* A call made only when nothing has been raised before it in the handler
Raised(w) == w.exc # "none"

\* remove_from_board() that records a target the roster does not hold
remove_from_board_lenient(w, c) ==
    [w EXCEPT !.creatures = ListRemove(@, c),
              !.removed_creatures = Append(@, c)]

\* Gameboard.remove_from_board
remove_from_board(w, c) ==
    IF c \in Range(w.creatures)
        THEN [w EXCEPT !.creatures = ListRemove(@, c),
                       !.removed_creatures = Append(@, c)]
    ELSE Raise(w, "ValueError")

\* Gameboard.creatures_at_index
creatures_at_index(w, index) ==
    SelectSeq(w.creatures, LAMBDA i : w.cr[i].location = index)

----------------------------------------------------------------------------
(* organisms.py: Creature *)

get_directions ==
    <<<<1, 1>>, <<1, 0>>, <<1, -1>>, <<0, 1>>, <<0, -1>>, <<-1, 1>>,
      <<-1, 0>>, <<-1, -1>>>>

\* Creature.__init__, with gameboard not None: the new object joins the roster
NewCreature(w, creature_type, location, st) ==
    LET me == [creature_type |-> creature_type,
               location |-> location,
               energy |-> RDiv(st.maxenergy, Q(2)),
               vitality |-> st.maxvitality,
               maxenergy |-> st.maxenergy,
               maxvitality |-> st.maxvitality,
               attack_power |-> st.attack_power,
               defense |-> st.defense,
               efficiency |-> st.efficiency,
               speed |-> st.speed,
               fertility |-> st.fertility,
               aggression |-> st.aggression,
               is_alive |-> TRUE]
    IN  [w EXCEPT !.cr = Append(@, me),
                  !.creatures = Append(@, Len(w.cr) + 1)]

\* Creature.decay: pass
decay(w, c) == w

\* Creature.remove_from_board
creature_remove_from_board(w, c) == remove_from_board(w, c)

\* die() that leaves the creature on the roster
die_on_roster(w, c) == [w EXCEPT !.cr[c].is_alive = FALSE]

\* Creature.die
die(w, c) ==
    creature_remove_from_board(
        Note([w EXCEPT !.cr[c].is_alive = FALSE], <<"die", c>>), c)

\* Creature.change_energy
change_energy(w, c, amount) ==
    CHOOSE r \in
        {LET w1 == Note([w EXCEPT !.cr[c].energy = e1], <<"change_energy", c, amount>>)
         IN  IF RGt(e1, me.maxenergy) THEN [w1 EXCEPT !.cr[c].energy = me.maxenergy]
             ELSE IF RLe(e1, Zero) THEN die(w1, c)
             ELSE w1 :
         e1 \in {IF RLt(amount, Zero)
                     THEN RAdd(me.energy, RMul(amount, RSub(One, me.efficiency)))
                 ELSE RAdd(me.energy, amount) : me \in {w.cr[c]}},
         me \in {w.cr[c]}} : TRUE

\* Creature.change_vitality
change_vitality(w, c, amount) ==
    LET me == w.cr[c]
        v1 == RAdd(me.vitality, amount)
        w1 == Note([w EXCEPT !.cr[c].vitality = v1], <<"change_vitality", c, amount>>)
    IN  IF RGt(v1, me.maxvitality) THEN [w1 EXCEPT !.cr[c].vitality = me.maxvitality]
        ELSE IF RLe(v1, Zero) THEN die(w1, c)
        ELSE w1

\* Creature.rest
rest(w, c) ==
    [w EXCEPT !.cr[c].vitality = RAdd(@, RDiv(w.cr[c].maxvitality, Q(8)))]

\* Creature.take_damage
take_damage(w, c, amount) ==
    change_vitality(w, c, RNeg(RMul(amount, RSub(One, w.cr[c].defense))))

\* self.change_energy(self.ATTACK_COST), reached when take_damage returned
attack_cost(w, c) == IF Raised(w) THEN w ELSE change_energy(w, c, Q(ATTACK_COST))

\* Creature.attack; Predator.attack overrides it with `pass`
attack(w, c, target) ==
    IF w.cr[c].creature_type = "predator" THEN w
    ELSE attack_cost(take_damage(w, target, w.cr[c].attack_power), c)

\* Creature.randomize_stats; u[stat] is the fraction random.uniform lands on
RECURSIVE randomize_loop(_, _, _)
randomize_loop(me, stats, u) ==
    IF stats = <<>> THEN me
    ELSE LET stat == Head(stats)
             minVal == STAT_RANDOM[stat][1]
             maxVal == STAT_RANDOM[stat][2]
             val == RAdd(minVal, RMul(RSub(maxVal, minVal), u[stat]))
         IN  randomize_loop([me EXCEPT ![stat] = val], Tail(stats), u)

randomize_stats(w, c, u) ==
    [w EXCEPT !.cr[c] = randomize_loop(@, mating_stats, u)]

\* Creature.get_vals
get_vals(me, atts) == [i \in DOMAIN atts |-> me[atts[i]]]

\* Creature.power_score: <<absolute score, normalized score>>
power_score(me) ==
    LET vals == get_vals(me, power_stats)
        scores == [i \in DOMAIN vals |-> RDiv(vals[i], PERFECT_STATS[i])]
        total == RSum(scores)
    IN  <<total, RDiv(total, Q(Len(scores)))>>

\* combine_vals() that hands down the initiator's own values
combine_vals_own(me, target) == [stat \in Range(mating_stats) |-> me[stat]]

\* Creature.combine_vals
combine_vals(me, target) ==
    LET own_vals == get_vals(me, mating_stats)
        target_vals == get_vals(target, mating_stats)
        offspring_vals ==
            [i \in DOMAIN own_vals |-> RDiv(RAdd(own_vals[i], target_vals[i]), Q(2))]
    IN  [stat \in Range(mating_stats) |->
            offspring_vals[CHOOSE i \in DOMAIN mating_stats : mating_stats[i] = stat]]

\* Creature.bring_stats_in_range
RECURSIVE range_loop(_, _, _)
range_loop(me, current_vals, keys) ==
    IF keys = <<>> THEN me
    ELSE LET key == Head(keys)
             lo == STAT_RANGES[key][1]
             hi == STAT_RANGES[key][2]
             m1 == IF RLt(current_vals[key], lo) THEN [me EXCEPT ![key] = lo] ELSE me
             m2 == IF hi # Inf /\ RGt(current_vals[key], hi)
                       THEN [m1 EXCEPT ![key] = hi] ELSE m1
         IN  CHOOSE r \in {range_loop(x, current_vals, Tail(keys)) : x \in {m2}} : TRUE

bring_stats_in_range(me) ==
    range_loop(me, [k \in Range(mating_stats) |-> me[k]], mating_stats)

\* normalize_power_stats() that leaves every score as it is
normalize_never(me) == me

\* Creature.normalize_power_stats
normalize_power_stats(me) ==
    CHOOSE r \in {IF RGt(norm_score, One)
                      THEN [k \in DOMAIN me |->
                               IF k \in Range(power_stats) THEN RDiv(me[k], norm_score)
                               ELSE me[k]]
                  ELSE me : norm_score \in {power_score(me)[2]}} : TRUE

\* Creature.mutate_attribute; normal is the value np.random.normal() returns
mutate_attribute(me, attr, normal) ==
    LET stat_range == STAT_RANGES[attr]
        factor == IF stat_range[2] = Inf THEN RDiv(Q(100), Q(10))
                  ELSE RDiv(RSub(stat_range[2], stat_range[1]), Q(10))
        mutation_amount == RMul(factor, normal)
    IN  [me EXCEPT ![attr] = RAdd(@, mutation_amount)]

\* mutate_attribute() that passes over a name it does not know
mutate_silently(w, c, attr, normal) ==
    IF attr \notin DOMAIN STAT_RANGES THEN w
    ELSE [w EXCEPT !.cr[c] = mutate_attribute(@, attr, normal)]

\* Creature.mutate_attribute called with any name: self.STAT_RANGES[attr]
\* raises KeyError for a name that is not a key of STAT_RANGES
mutate_named(w, c, attr, normal) ==
    IF attr \notin DOMAIN STAT_RANGES THEN Raise(w, "KeyError")
    ELSE [w EXCEPT !.cr[c] = mutate_attribute(@, attr, normal)]

\* The mutation loop of Creature.reproduce
RECURSIVE mutate_loop(_, _, _, _)
mutate_loop(me, keys, mut_num, normal) ==
    IF keys = <<>> THEN me
    ELSE LET key == Head(keys)
             m1 == IF RLe(mut_num[key], MUTATION_CHANCE)
                       THEN mutate_attribute(me, key, normal[key])
                   ELSE me
         IN  CHOOSE r \in {mutate_loop(x, Tail(keys), mut_num, normal) : x \in {m1}} :
                 TRUE

\* The three viability checks at the end of Creature.reproduce
check_maxenergy(w, o) ==
    IF Raised(w) THEN w
    ELSE IF RLe(w.cr[o].maxenergy, Zero) THEN die(w, o) ELSE w

check_maxvitality(w, o) ==
    IF Raised(w) THEN w
    ELSE IF RLe(w.cr[o].maxvitality, Zero) THEN die(w, o) ELSE w

check_speed(w, o) ==
    IF Raised(w) THEN w
    ELSE IF RLt(w.cr[o].speed, One) THEN die(w, o) ELSE w

offspring_checks(w, o) ==
    CHOOSE r \in {check_speed(w3, o) :
                     w3 \in {check_maxvitality(w2, o) :
                                w2 \in {check_maxenergy(w1, o) : w1 \in {w}}}} : TRUE

\* The offspring of Creature.reproduce: constructed from the combined
\* stats, mutated, brought in range and normalized
offspring_born(w, c, target, mut_num, normal) ==
    [NewCreature(w, w.cr[c].creature_type, w.cr[c].location,
                 combine_vals(w.cr[c], w.cr[target]))
        EXCEPT !.cr[Len(w.cr) + 1] =
                   CHOOSE r \in {normalize_power_stats(m3) :
                                    m3 \in {bring_stats_in_range(m2) :
                                               m2 \in {mutate_loop(m1, mating_stats,
                                                                   mut_num, normal) :
                                                          m1 \in {@}}}} : TRUE,
               !.log = Append(@, <<"reproduce", c, target, Len(w.cr) + 1>>)]

\* A mating that costs the parent nothing
mating_cost_free(w, c) == w

\* self.change_energy(self.MATING_COST); target.change_energy(target.MATING_COST)
mating_cost(w, c) == IF Raised(w) THEN w ELSE change_energy(w, c, Q(MATING_COST))

\* Creature.reproduce
reproduce(w, c, target, mut_num, normal) ==
    CHOOSE r \in {offspring_checks(w3, Len(w.cr) + 1) :
                     w3 \in {mating_cost(w2, target) :
                                w2 \in {mating_cost(w1, c) :
                                           w1 \in {offspring_born(w, c, target,
                                                                  mut_num, normal)}}}} :
        TRUE

\* mate() that lets a draw equal to 1 - fertility through
mate_at_least(w, c, target, draw1, draw2, mut_num, normal) ==
    IF RGe(draw1, RSub(One, w.cr[c].fertility))
       /\ RGe(draw2, RSub(One, w.cr[target].fertility))
        THEN reproduce(w, c, target, mut_num, normal)
    ELSE w

\* Creature.mate; draw1 and draw2 are the two values of random.uniform(0,1)
mate(w, c, target, draw1, draw2, mut_num, normal) ==
    IF RGt(draw1, RSub(One, w.cr[c].fertility))
       /\ RGt(draw2, RSub(One, w.cr[target].fertility))
        THEN reproduce(w, c, target, mut_num, normal)
    ELSE w

\* Creature.receive_mate_threshold
receive_mate_threshold(me) ==
    RAbs(RMul(Q(MATING_COST), RSub(One, me.efficiency)))

\* Creature.seek_mate_threshold as Herbivore.inner_turn computes it
seeks_mate(me) == RGt(me.energy, RMul(MATING_THRESHHOLD, me.maxenergy))

\* Creature.same_species_at_loc, before friends.remove(self)
same_species_with_self(w, c, loc) ==
    SelectSeq(creatures_at_index(w, loc),
              LAMBDA i : w.cr[i].creature_type = w.cr[c].creature_type)

\* Creature.same_species_at_loc; friends.remove(self) raises when self is absent
same_species_raises(w, c, loc) == c \notin Range(same_species_with_self(w, c, loc))

same_species_at_loc(w, c, loc) == ListRemove(same_species_with_self(w, c, loc), c)

\* potential_mates() that takes a creature whose energy equals its threshold
potential_mates_at_threshold(w, c) ==
    SelectSeq(same_species_at_loc(w, c, w.cr[c].location),
              LAMBDA i : RGe(w.cr[i].energy, receive_mate_threshold(w.cr[i])))

\* Creature.potential_mates
potential_mates(w, c) ==
    SelectSeq(same_species_at_loc(w, c, w.cr[c].location),
              LAMBDA i : RGt(w.cr[i].energy, receive_mate_threshold(w.cr[i])))

\* The value a call returns, kept in ret
Return(w, value) == IF Raised(w) THEN w ELSE [w EXCEPT !.ret = value]

\* Creature.try_to_mate; pick is the index random.choice lands on.
\* The result carries did_mate in ret.
try_to_mate(w, c, pick, draw1, draw2, mut_num, normal) ==
    IF same_species_raises(w, c, w.cr[c].location) THEN Raise(w, "ValueError")
    ELSE IF potential_mates(w, c) # <<>>
        THEN CHOOSE r \in
                 {Return(mated, TRUE) :
                    mated \in {mate(noted, c, target, draw1, draw2, mut_num, normal) :
                                 noted \in {Note(w, <<"mate", c,
                                                      potential_mates(w, c)[pick]>>)},
                                 target \in {potential_mates(w, c)[pick]}}} : TRUE
    ELSE Return(w, FALSE)

\* Creature.move
move_charging_first(w, c, delX, delY) ==
    LET new_pos == <<w.cr[c].location[1] + delX, w.cr[c].location[2] + delY>>
        w1 == change_energy(w, c, Q(MOVEMENT_COST))
    IN  IF pos_is_valid(new_pos) THEN [w1 EXCEPT !.cr[c].location = new_pos]
        ELSE Raise(w1, "IndexError")

\* Creature.move
move(w, c, delX, delY) ==
    LET new_pos == <<w.cr[c].location[1] + delX, w.cr[c].location[2] + delY>>
    IN  IF pos_is_valid(new_pos)
            THEN change_energy(
                     Note([w EXCEPT !.cr[c].location = new_pos], <<"move", c, new_pos>>),
                     c, Q(MOVEMENT_COST))
        ELSE Raise(w, "IndexError")

----------------------------------------------------------------------------
(* organisms.py: angle_between_points, angle_diff and the methods that use  *)
(* them.  An angle atan2(y, x) is kept exactly, as the vector <<x, y>> it   *)
(* is the bearing of; the angles computed here are bearings of vectors of  *)
(* whole numbers.                                                          *)

\* math.atan2(delta_y, delta_x); atan2(0, 0) is 0, the bearing of <<1, 0>>
angle_between_points(ptA, ptB) ==
    LET delta_x == ptB[1] - ptA[1]
        delta_y == ptB[2] - ptA[2]
    IN  IF delta_x = 0 /\ delta_y = 0 THEN <<1, 0>> ELSE <<delta_x, delta_y>>

\* angle_diff: a = a2 - a1, of (-2 pi, 2 pi), is brought into [-pi, pi] by
\* `if a > pi: a -= 2 pi; elif a < -pi: a += 2 pi`, and abs(a) is returned:
\* the angle between the two bearings, of [0, pi].  It is kept exactly, as
\* its cosine dot / sqrt(len2).
angle_diff(a1, a2) ==
    [dot |-> a1[1] * a2[1] + a1[2] * a2[2],
     len2 |-> (a1[1] * a1[1] + a1[2] * a1[2]) * (a2[1] * a2[1] + a2[2] * a2[2])]

\* sign(d) * d * d
SignedSquare(d) == IF d < 0 THEN -(d * d) ELSE d * d

\* s < t, as angles of [0, pi]: the cosine of s is the larger
SizeLt(s, t) == SignedSquare(s.dot) * t.len2 > SignedSquare(t.dot) * s.len2

\* The index of the largest of sizes, the first of them if there are several
argmax(sizes) ==
    CHOOSE i \in DOMAIN sizes :
        /\ \A j \in DOMAIN sizes : ~SizeLt(sizes[i], sizes[j])
        /\ \A j \in 1 .. i - 1 : SizeLt(sizes[j], sizes[i])

\* np.argmin: the index of the smallest, the first of them if there are several
argmin(sizes) ==
    CHOOSE i \in DOMAIN sizes :
        /\ \A j \in DOMAIN sizes : ~SizeLt(sizes[j], sizes[i])
        /\ \A j \in 1 .. i - 1 : SizeLt(sizes[i], sizes[j])

\* Creature.direction_to_location
direction_to_location(w, c, loc) == angle_between_points(w.cr[c].location, loc)

\* Creature.get_closest_direction
get_closest_direction(w, c, loc) ==
    LET target_angle == direction_to_location(w, c, loc)
        possible_directions == get_directions
        angles == [i \in DOMAIN possible_directions |->
                      angle_diff(angle_between_points(<<0, 0>>, possible_directions[i]),
                                 target_angle)]
    IN  possible_directions[argmin(angles)]

\* Creature.move_toward
move_toward(w, c, loc) ==
    LET win_direction == get_closest_direction(w, c, loc)
    IN  move(w, c, win_direction[1], win_direction[2])

\* Creature.move_randomly; order is the order random.choice draws the
\* directions in (a drawn direction that fails is removed from the list)
RECURSIVE move_randomly(_, _, _)

\* move_randomly that gives up at the first rejected direction
move_giving_up(w, c, directions) == w

\* except IndexError: directions.remove(direction), and the next draw
move_except(w, c, directions) ==
    IF w.exc = "IndexError" THEN move_randomly([w EXCEPT !.exc = "none"], c, directions)
    ELSE w

move_randomly(w, c, order) ==
    IF order = <<>> THEN Raise(w, "IndexError")
    ELSE CHOOSE r \in {move_except(tried, c, Tail(order)) :
                           tried \in {move(w, c, Head(order)[1], Head(order)[2])}} :
             TRUE

----------------------------------------------------------------------------
(* organisms.py: Predator *)

\* consume() that adds the prey's energy, however little it is
consume_prey_only(w, c, target) == change_energy(w, c, w.cr[target].energy)

\* Predator.consume: adder = max(self.min_predation_energy, target.energy)
consume(w, c, target) ==
    change_energy(w, c, IF RGe(Q(min_predation_energy), w.cr[target].energy)
                            THEN Q(min_predation_energy)
                        ELSE w.cr[target].energy)

\* Creature.get_current_tile
get_current_tile(w, c) == w.landscape[w.cr[c].location]

----------------------------------------------------------------------------
(* organisms.py: Herbivore *)

\* eat taking feed_amount whatever the tile holds
eat_amt_full(target_tile) == Q(feed_amount)

\* Herbivore.eat: the amount taken
eat_amt(target_tile) ==
    IF RLe(target_tile.plant_material, Q(feed_amount)) THEN target_tile.plant_material
    ELSE Q(feed_amount)

\* The meal taken from one tile object that every cell refers to
eat_tile_shared(w, location, amt) ==
    IF Raised(w) THEN w
    ELSE [w EXCEPT !.landscape =
                       [p \in DOMAIN @ |-> change_plant_amount(@[p], RNeg(amt))]]

\* Herbivore.eat: target_tile.change_plant_amount(-amt)
eat_tile(w, location, amt) ==
    IF Raised(w) THEN w
    ELSE [w EXCEPT !.landscape[location] = change_plant_amount(@, RNeg(amt))]

\* Herbivore.eat
eat(w, c) ==
    eat_tile(change_energy(Note(w, <<"eat", c, eat_amt(get_current_tile(w, c))>>), c,
                           eat_amt(get_current_tile(w, c))),
             w.cr[c].location, eat_amt(get_current_tile(w, c)))

\* Herbivore.inner_turn: the condition of its mating branch
wants_mate(w, c) == seeks_mate(w.cr[c])

\* A herbivore that eats whatever its tile holds
can_eat_always(w, c) == TRUE

\* Herbivore.inner_turn: the tile offers a full meal
can_eat(w, c) == RGe(get_current_tile(w, c).plant_material, Q(feed_amount))

----------------------------------------------------------------------------
(* Inputs *)

BoardSizes == {<<1, 1>>, <<2, 1>>}
Tiles == {Forest, Desert}

\* Constructor arguments; Default is the signature's defaults
Default ==
    [maxenergy |-> Q(100), speed |-> Q(1), efficiency |-> Rat(1, 2),
     maxvitality |-> Q(100), attack_power |-> Q(25), defense |-> Rat(1, 2),
     fertility |-> Rat(1, 2), aggression |-> Rat(1, 4)]
Small == [Default EXCEPT !.maxenergy = Q(20), !.efficiency = Rat(8, 10),
                         !.fertility = One]
Frail == [Default EXCEPT !.maxenergy = Q(4), !.maxvitality = Q(8)]
\* The attackers of the attack tests: attack power 10 and 100
Weak == [Default EXCEPT !.attack_power = Q(10)]
Brute == [Default EXCEPT !.attack_power = Q(100)]
\* The creatures of the mating tests: simple_creature_alt, a creature with
\* fertility set to 0, the creature of the normalization test, and one of
\* low maxvitality
Alt == [Default EXCEPT !.aggression = Rat(3, 4), !.speed = Q(3), !.attack_power = Q(20)]
Sterile == [Default EXCEPT !.fertility = Zero]
Strong ==
    [maxenergy |-> Q(200), speed |-> Q(3), efficiency |-> Rat(8, 10),
     maxvitality |-> Q(100), attack_power |-> Q(50), defense |-> Rat(8, 10),
     fertility |-> One, aggression |-> Rat(1, 4)]
Feeble == [Default EXCEPT !.maxvitality = Q(8), !.fertility = One]
\* A herbivore whose speed is not a whole number, as randomize_stats draws it
Nimble == [Small EXCEPT !.speed = Rat(5, 2)]
\* A herbivore whose mating cost, 50 * (1 - 0.5), is above its maxenergy
Meagre == [Default EXCEPT !.maxenergy = Q(20), !.fertility = One]

\* random.uniform(0,1) in Creature.mate, both ends included
MateDraws == {Zero, Rat(1, 2), One}

\* The stats that mutate together in one reproduce call of a mating
MateMutations == {{}, {"defense"}, {"maxvitality", "speed"}}
\* random.uniform(0,1) in Creature.mate
UniformDraws == {Zero, Rat(1, 4), Rat(3, 4)}

\* np.random.normal() in Creature.mutate_attribute
NormalDraws == {Q(-2), Q(1)}

\* The stats that mutate together in one reproduce call
MutatedSets == SUBSET {"maxenergy", "maxvitality", "speed"}

\* random.uniform(0,1) of the mutation loop: at or below MUTATION_CHANCE for
\* the stats of M, above it for the others
MutNum(M) == [k \in Range(mating_stats) |-> IF k \in M THEN Rat(1, 1000) ELSE Rat(1, 2)]

Rotate(s, k) == [i \in DOMAIN s |-> s[((i + k - 1) % Len(s)) + 1]]
Reverse(s) == [i \in DOMAIN s |-> s[Len(s) + 1 - i]]

\* Orders in which move_randomly may draw the 8 directions
ShuffleOrders ==
    {Rotate(get_directions, k) : k \in 0 .. 7}
        \cup {Reverse(Rotate(get_directions, k)) : k \in 0 .. 7}

----------------------------------------------------------------------------
(* State *)

Idle == pc = "idle"

Board == <<boardsize, tile>>
PlayVars == <<pc, snapshot, slot, can_act, movement_remaining, did_mate, turns, plays>>

\* The state after Gameboard.__init__
InitBoard ==
    /\ boardsize \in BoardSizes
    /\ tile \in Tiles
    /\ landscape = create_landscape(boardsize, tile)
    /\ creatures = <<>>
    /\ removed_creatures = <<>>
    /\ cr = <<>>
    /\ exc = "none"
    /\ log = <<>>
    /\ last = <<"Gameboard">>
    /\ pc = "idle"
    /\ snapshot = <<>>
    /\ slot = 0
    /\ can_act = FALSE
    /\ movement_remaining = Zero
    /\ did_mate = FALSE
    /\ turns = <<>>
    /\ plays = 0
    /\ called = <<>>

\* The effect of a call on the board and its creatures
Commit(w) ==
    /\ cr' = w.cr
    /\ creatures' = w.creatures
    /\ removed_creatures' = w.removed_creatures
    /\ landscape' = w.landscape
    /\ exc' = w.exc
    /\ log' = w.log

\* A direct call from outside play(), one of at most limit
Call(w, what, limit) ==
    /\ Idle
    /\ Len(called) < limit
    /\ Commit(w)
    /\ last' = what
    /\ called' = Append(called, <<what[1], what[2], w.exc>>)
    /\ UNCHANGED <<Board, PlayVars>>

\* Creature(...), Herbivore(...), Predator(...)
Construct(creature_type, location, st) ==
    /\ Idle
    /\ Len(cr) < MaxCreatures
    /\ pos_is_valid(location)
    /\ Commit(NewCreature(World, creature_type, location, st))
    /\ last' = <<"__init__", Len(cr) + 1>>
    /\ UNCHANGED <<Board, PlayVars, called>>

Ids == DOMAIN cr

CallChangeEnergy(c, amount) ==
    Call(change_energy(World, c, amount), <<"change_energy", c, amount>>, MaxApiCalls)

CallChangeVitality(c, amount) ==
    Call(change_vitality(World, c, amount), <<"change_vitality", c, amount>>, MaxApiCalls)

CallRest(c) == Call(rest(World, c), <<"rest", c>>, MaxApiCalls)

CallRandomizeStats(c, u) ==
    Call(randomize_stats(World, c, u), <<"randomize_stats", c>>, MaxApiCalls)

CallReproduce(c, target, M, normal) ==
    /\ Len(cr) < MaxCreatures
    /\ Call(reproduce(World, c, target, MutNum(M), [k \in Range(mating_stats) |-> normal]),
            <<"reproduce", c, target>>, MaxApiCalls)

CallEat(c) ==
    /\ cr[c].creature_type = "herbivore"
    /\ Call(eat(World, c), <<"eat", c>>, MaxApiCalls)

CallMove(c, delX, delY) ==
    Call(move(World, c, delX, delY), <<"move", c, delX, delY>>, MaxMoves)

CallDie(c) == Call(die(World, c), <<"die", c>>, MaxCalls)

CallRemoveFromBoard(c) ==
    Call(creature_remove_from_board(World, c), <<"remove_from_board", c>>, MaxCalls)

CallAttack(c, target) ==
    Call(attack(World, c, target), <<"attack", c, target>>, MaxFights)

CallRestBeforeFight(c) == Call(rest(World, c), <<"rest", c>>, MaxFights)

CallMate(c, target, draw1, draw2, M, normal) ==
    /\ Idle
    /\ Len(called) < MaxMateCalls
    /\ \E w \in {mate(World, c, target, draw1, draw2, MutNum(M),
                      [k \in Range(mating_stats) |-> normal])} :
           /\ Len(w.cr) <= MaxCreatures
           /\ Call(w, <<"mate", c, target, draw1, draw2>>, MaxMateCalls)

\* try_to_mate called directly; the value it returns is kept in last
CallTryToMate(c, pick, draw1, draw2, M, normal) ==
    /\ Idle
    /\ Len(called) < MaxMateCalls
    /\ \E w \in {try_to_mate(World, c, pick, draw1, draw2, MutNum(M),
                             [k \in Range(mating_stats) |-> normal])} :
           /\ Len(w.cr) <= MaxCreatures
           /\ Call(w, <<"try_to_mate", c, w.ret>>, MaxMateCalls)

\* Tile.plant_grow and Tile.change_plant_amount of the tile at p
CallPlantGrow(p) ==
    Call([World EXCEPT !.landscape[p] = plant_grow(@)], <<"plant_grow", p>>,
         MaxTileCalls)

CallChangePlantAmount(p, amount) ==
    Call([World EXCEPT !.landscape[p] = change_plant_amount(@, amount)],
         <<"change_plant_amount", p, amount>>, MaxTileCalls)

\* Gameboard.pos_is_valid called directly; the value it returns is kept in last
CallPosIsValid(pos) ==
    Call(World, <<"pos_is_valid", pos, pos_is_valid(pos)>>, MaxProbes)

CallMutateAttribute(c, attr, normal) ==
    Call(mutate_named(World, c, attr, normal), <<"mutate_attribute", c, attr>>,
         MaxMutations)

\* move, move_randomly and randomize_stats called directly on a board with
\* room to move
CallMoveOnce(c, delX, delY) ==
    Call(move(World, c, delX, delY), <<"move", c, delX, delY>>, MaxRoams)

CallMoveRandomly(c, order) ==
    Call(move_randomly(World, c, order), <<"move_randomly", c, order>>, MaxRoams)

CallRandomizeBeforeMove(c, u) ==
    Call(randomize_stats(World, c, u), <<"randomize_stats", c>>, MaxRoams)

\* The decay test's set-up: creature.is_alive = False; creature.energy = e
SetCorpse(c, e) ==
    Call([World EXCEPT !.cr[c].is_alive = FALSE, !.cr[c].energy = e],
         <<"corpse", c>>, MaxDecays)

CallDecay(c) == Call(decay(World, c), <<"decay", c>>, MaxDecays)

CallMoveToward(c, loc) ==
    Call(move_toward(World, c, loc), <<"move_toward", c, loc>>, MaxTowards)

CallConsume(c, target) ==
    /\ cr[c].creature_type = "predator"
    /\ Call(consume(World, c, target), <<"consume", c, target>>, MaxHunts)

\* random.randint(a, b): any integer of a .. b; ValueError when there is none
randint(a, b) == a .. b

\* Player.__init__, one pass of a loop: a creature of the defaults at
\* (randint(boardsize[0]-1, boardsize[1]-1), randint(boardsize[0]-1,
\* boardsize[1]-1)), then randomize_stats().  The herbivores come first.
PlayerPlace(creature_type, x, y, u) ==
    /\ exc = "none"
    /\ creature_type = "herbivore" =>
           \A c \in Ids : cr[c].creature_type = "herbivore"
    /\ x \in randint(boardsize[1] - 1, boardsize[2] - 1)
    /\ y \in randint(boardsize[1] - 1, boardsize[2] - 1)
    /\ Call(randomize_stats(NewCreature(World, creature_type, <<x, y>>, Default),
                            Len(cr) + 1, u),
            <<"Player", Len(cr) + 1, creature_type>>, MaxCreatures)

\* Player.__init__ when randint has nothing to draw from: the constructor
\* ends with the ValueError, before the creature is made
PlayerRaise(creature_type) ==
    /\ exc = "none"
    /\ creature_type = "herbivore" =>
           \A c \in Ids : cr[c].creature_type = "herbivore"
    /\ randint(boardsize[1] - 1, boardsize[2] - 1) = {}
    /\ Call(Raise(World, "ValueError"), <<"Player", 0, creature_type>>, MaxCreatures)

----------------------------------------------------------------------------
(* Gameboard.play, one creature's turn after the other.  A turn of a       *)
(* Herbivore is its inner_turn loop, one iteration per step.  While a play *)
(* call runs nothing else does: the program is single threaded.            *)

\* for creature in self.creatures: the loop walking the roster itself
play_live == creatures

\* for creature in self.creatures.copy(): the list the loop walks
play_list == snapshot

\* assert all(c.is_alive for c in self.creatures)
RosterAlive == \A i \in Range(creatures) : cr[i].is_alive

\* An exception leaves play()
Abort(e) ==
    /\ pc' = "idle"
    /\ exc' = e
    /\ UNCHANGED <<snapshot, slot, can_act, movement_remaining, did_mate, turns, plays>>

\* play() is called, for one of at most limit times
PlayBeginWithin(limit) ==
    /\ Idle
    /\ plays < limit
    /\ creatures # <<>>
    /\ snapshot' = creatures
    /\ slot' = 1
    /\ pc' = "turns"
    /\ turns' = <<>>
    /\ plays' = plays + 1
    /\ exc' = "none"
    /\ log' = <<>>
    /\ last' = <<"play">>
    /\ UNCHANGED <<Board, landscape, creatures, removed_creatures, cr, can_act,
                   movement_remaining, did_mate, called>>

PlayBegin == PlayBeginWithin(MaxPlays)

AtSlot(c) ==
    /\ pc = "turns"
    /\ slot <= Len(play_list)
    /\ c = play_list[slot]

\* Creature.take_turn: whether inner_turn is called
take_turn_acts(me) == me.is_alive

\* What is known of one turn of a play() call: whose it is, whether
\* inner_turn was called, and how many moves, meals and matings it made
TurnRecord(c, took) ==
    [c |-> c, took |-> took, ended_alive |-> FALSE, charged |-> 0,
     moves |-> 0, eats |-> 0, mates |-> 0]

\* How many calls of a kind creature c made, as a log notes them
Did(s, kind, c) == Cardinality({i \in DOMAIN s : s[i][1] = kind /\ s[i][2] = c})

\* The loop's assertion fails
AssertionFails ==
    /\ Abort("AssertionError")
    /\ log' = <<>>
    /\ UNCHANGED <<Board, landscape, creatures, removed_creatures, cr, last, called>>

\* take_turn of a creature that is not alive: pass
TakeTurnPass(c) ==
    /\ slot' = slot + 1
    /\ turns' = Append(turns, TurnRecord(c, FALSE))
    /\ last' = <<"take_turn", c>>
    /\ exc' = "none"
    /\ log' = <<>>
    /\ UNCHANGED <<Board, landscape, creatures, removed_creatures, cr, pc, snapshot,
                   can_act, movement_remaining, did_mate, plays, called>>

\* The loop body of play for a Herbivore: the assertion, then take_turn,
\* which runs inner_turn up to its while loop
TakeTurnHerbivore(c) ==
    /\ AtSlot(c)
    /\ cr[c].creature_type = "herbivore"
    /\ IF ~RosterAlive THEN AssertionFails
       ELSE IF ~take_turn_acts(cr[c]) THEN TakeTurnPass(c)
       ELSE /\ pc' = "inner"
            /\ can_act' = TRUE
            /\ movement_remaining' = cr[c].speed
            /\ did_mate' = FALSE
            /\ turns' = Append(turns, TurnRecord(c, TRUE))
            /\ last' = <<"take_turn", c>>
            /\ exc' = "none"
            /\ log' = <<>>
            /\ UNCHANGED <<Board, landscape, creatures, removed_creatures, cr,
                           snapshot, slot, plays, called>>

\* The loop body of play for a Predator: Predator.inner_turn is pass
TakeTurnPredator(c) ==
    /\ AtSlot(c)
    /\ cr[c].creature_type = "predator"
    /\ IF ~RosterAlive THEN AssertionFails
       ELSE IF ~take_turn_acts(cr[c]) THEN TakeTurnPass(c)
       ELSE /\ slot' = slot + 1
            /\ turns' = Append(turns, [TurnRecord(c, TRUE) EXCEPT
                                          !.ended_alive = cr[c].is_alive])
            /\ last' = <<"take_turn", c>>
            /\ exc' = "none"
            /\ log' = <<>>
            /\ UNCHANGED <<Board, landscape, creatures, removed_creatures, cr, pc,
                           snapshot, can_act, movement_remaining, did_mate, plays,
                           called>>

\* The creature whose inner_turn is running
Acting(c) ==
    /\ pc = "inner"
    /\ c = turns[Len(turns)].c

\* One iteration of the while loop has begun and self is alive
Looping(c) ==
    /\ Acting(c)
    /\ can_act
    /\ cr[c].is_alive

\* try_to_mate is called and does not return False
Mates(c) ==
    /\ wants_mate(World, c)
    /\ \/ same_species_raises(World, c, cr[c].location)
       \/ potential_mates(World, c) # <<>>

\* A step of the loop: its effect w, or the exception leaving play()
Step(w, what) ==
    /\ Commit(w)
    /\ last' = what
    /\ turns' = [turns EXCEPT ![Len(turns)] =
                   [@ EXCEPT !.moves = @ + Did(w.log, "move", what[2]),
                             !.eats = @ + Did(w.log, "eat", what[2]),
                             !.mates = @ + Did(w.log, "mate", what[2])]]
    /\ UNCHANGED <<Board, snapshot, slot, plays, called>>
    /\ pc' = IF w.exc = "none" THEN "inner" ELSE "idle"

\* while can_act: if not self.is_alive: return
InnerDead(c) ==
    /\ Acting(c)
    /\ can_act
    /\ ~cr[c].is_alive
    /\ pc' = "turns"
    /\ slot' = slot + 1
    /\ last' = <<"inner_turn", c, "return">>
    /\ exc' = "none"
    /\ log' = <<>>
    /\ UNCHANGED <<Board, landscape, creatures, removed_creatures, cr, snapshot,
                   can_act, movement_remaining, did_mate, turns, plays, called>>

\* A mating after which the loop goes on
InnerMateGoesOn(c) ==
    /\ Looping(c)
    /\ Mates(c)
    /\ \E pick \in 1 .. Len(potential_mates(World, c)), draw1, draw2 \in UniformDraws,
          M \in MutatedSets, normal \in NormalDraws :
         \E w \in {try_to_mate(World, c, pick, draw1, draw2, MutNum(M),
                               [k \in Range(mating_stats) |-> normal])} :
             /\ Len(w.cr) <= MaxCreatures
             /\ Step(w, <<"inner_turn", c, "try_to_mate">>)
             /\ did_mate' = IF w.exc = "none" THEN w.ret ELSE did_mate
             /\ UNCHANGED <<can_act, movement_remaining>>

\* A mating that draws anew, whatever draws it is handed
InnerMateUnseeded(c, pick, draw1, draw2, M, normal, what) ==
    \E again \in 1 .. Len(potential_mates(World, c)), u1, u2 \in UniformDraws,
       N \in MutatedSets, n \in NormalDraws :
        \E w \in {try_to_mate(World, c, again, u1, u2, MutNum(N),
                              [k \in Range(mating_stats) |-> n])} :
            /\ Len(w.cr) <= MaxCreatures
            /\ Step(w, what)
            /\ did_mate' = IF w.exc = "none" THEN w.ret ELSE did_mate
            /\ can_act' = IF w.exc = "none" THEN ~w.ret ELSE can_act
            /\ UNCHANGED movement_remaining

\* did_mate = self.try_to_mate(); can_act = not did_mate, when the random
\* module hands out pick, draw1, draw2, M and normal; what is the call as
\* `last` keeps it
InnerMateWith(c, pick, draw1, draw2, M, normal, what) ==
    \E w \in {try_to_mate(World, c, pick, draw1, draw2, MutNum(M),
                          [k \in Range(mating_stats) |-> normal])} :
        /\ Len(w.cr) <= MaxCreatures
        /\ Step(w, what)
        /\ did_mate' = IF w.exc = "none" THEN w.ret ELSE did_mate
        /\ can_act' = IF w.exc = "none" THEN ~w.ret ELSE can_act
        /\ UNCHANGED movement_remaining

\* did_mate = self.try_to_mate(); can_act = not did_mate
InnerMate(c) ==
    /\ Looping(c)
    /\ Mates(c)
    /\ \E pick \in 1 .. Len(potential_mates(World, c)), draw1, draw2 \in UniformDraws,
          M \in MutatedSets, normal \in NormalDraws :
           InnerMateWith(c, pick, draw1, draw2, M, normal,
                         <<"inner_turn", c, "try_to_mate">>)

\* A meal after which the loop goes on
InnerEatGoesOn(c) ==
    /\ Looping(c)
    /\ ~Mates(c)
    /\ can_eat(World, c)
    /\ \E w \in {eat(World, c)} :
           /\ Step(w, <<"inner_turn", c, "eat">>)
           /\ UNCHANGED <<can_act, movement_remaining, did_mate>>

\* self.eat(); can_act = False
InnerEat(c) ==
    /\ Looping(c)
    /\ ~Mates(c)
    /\ can_eat(World, c)
    /\ \E w \in {eat(World, c)} :
           /\ Step(w, <<"inner_turn", c, "eat">>)
           /\ can_act' = IF w.exc = "none" THEN FALSE ELSE can_act
           /\ UNCHANGED <<movement_remaining, did_mate>>

\* self.move_randomly(); movement_remaining -= 1, when random.shuffle leaves
\* the directions in order; what is the call as `last` keeps it
InnerMoveWith(c, order, what) ==
    \E w \in {move_randomly(World, c, order)} :
        /\ Step(w, what)
        /\ movement_remaining' =
               IF w.exc = "none" THEN RSub(movement_remaining, One)
               ELSE movement_remaining
        /\ UNCHANGED <<can_act, did_mate>>

\* self.move_randomly(); movement_remaining -= 1
InnerMove(c) ==
    /\ Looping(c)
    /\ ~Mates(c)
    /\ ~can_eat(World, c)
    /\ RGe(movement_remaining, One)
    /\ \E order \in ShuffleOrders :
           InnerMoveWith(c, order, <<"inner_turn", c, "move_randomly">>)

\* Nothing to eat and no movement left: can_act = False
InnerStay(c) ==
    /\ Looping(c)
    /\ ~Mates(c)
    /\ ~can_eat(World, c)
    /\ ~RGe(movement_remaining, One)
    /\ can_act' = FALSE
    /\ last' = <<"inner_turn", c, "stay">>
    /\ exc' = "none"
    /\ log' = <<>>
    /\ UNCHANGED <<Board, landscape, creatures, removed_creatures, cr, pc, snapshot,
                   slot, movement_remaining, did_mate, turns, plays, called>>

\* The number of times event occurs in a log
RECURSIVE Count(_, _)
Count(s, event) ==
    IF s = <<>> THEN 0
    ELSE (IF Head(s) = event THEN 1 ELSE 0) + Count(Tail(s), event)

\* A turn that costs nothing
existence_free(w, c) == w

\* After the loop: if self.is_alive: self.change_energy(self.EXISTENCE_COST)
existence_charge(w, c) ==
    IF w.cr[c].is_alive THEN change_energy(w, c, Q(EXISTENCE_COST)) ELSE w

InnerEnd(c) ==
    /\ Acting(c)
    /\ ~can_act
    /\ \E w \in {existence_charge(World, c)} :
           /\ Commit(w)
           /\ last' = <<"inner_turn", c, "end">>
           /\ turns' = [turns EXCEPT ![Len(turns)] =
                          [@ EXCEPT !.ended_alive = cr[c].is_alive,
                                    !.charged = Count(w.log,
                                        <<"change_energy", c, Q(EXISTENCE_COST)>>)]]
           /\ pc' = IF w.exc = "none" THEN "turns" ELSE "idle"
           /\ slot' = IF w.exc = "none" THEN slot + 1 ELSE slot
           /\ UNCHANGED <<Board, snapshot, can_act, movement_remaining, did_mate,
                          plays, called>>

\* for row in self.landscape: for tile in row: tile.plant_grow()
PlayEnd ==
    /\ pc = "turns"
    /\ slot > Len(play_list)
    /\ landscape' = [p \in DOMAIN landscape |-> plant_grow(landscape[p])]
    /\ pc' = "idle"
    /\ last' = <<"play", "done">>
    /\ exc' = "none"
    /\ log' = <<>>
    /\ UNCHANGED <<Board, creatures, removed_creatures, cr, snapshot, slot, can_act,
                   movement_remaining, did_mate, turns, plays, called>>

Play ==
    \/ PlayBegin
    \/ \E c \in Ids : TakeTurnHerbivore(c)
    \/ \E c \in Ids : TakeTurnPredator(c)
    \/ \E c \in Ids : InnerDead(c)
    \/ \E c \in Ids : InnerMate(c)
    \/ \E c \in Ids : InnerEat(c)
    \/ \E c \in Ids : InnerMove(c)
    \/ \E c \in Ids : InnerStay(c)
    \/ \E c \in Ids : InnerEnd(c)
    \/ PlayEnd

\* What the random module may hand to one call of try_to_mate: pick, draw1,
\* draw2, M and normal
SeededHands ==
    (1 .. MaxCreatures) \X {Zero, Rat(3, 4)} \X {Rat(3, 4)}
        \X {{}, {"maxenergy", "speed"}} \X NormalDraws

\* inner_turn's calls of the random module when it hands out one of hands
\* to try_to_mate and one of orders to the shuffle of move_randomly, with
\* what it handed out kept as an argument of the call
InnerMateSeeded(c, hands) ==
    /\ Looping(c)
    /\ Mates(c)
    /\ \E m \in hands :
           /\ m[1] <= Len(potential_mates(World, c))
           /\ InnerMateWith(c, m[1], m[2], m[3], m[4], m[5],
                            <<"inner_turn", c, "try_to_mate", m>>)

InnerMoveSeeded(c, orders) ==
    /\ Looping(c)
    /\ ~Mates(c)
    /\ ~can_eat(World, c)
    /\ RGe(movement_remaining, One)
    /\ \E order \in orders :
           InnerMoveWith(c, order, <<"inner_turn", c, "move_randomly", order>>)

\* play() fed from hands and orders
PlayFed(hands, orders) ==
    \/ PlayBegin
    \/ \E c \in Ids : TakeTurnHerbivore(c)
    \/ \E c \in Ids : TakeTurnPredator(c)
    \/ \E c \in Ids : InnerDead(c)
    \/ \E c \in Ids : InnerMateSeeded(c, hands)
    \/ \E c \in Ids : InnerEat(c)
    \/ \E c \in Ids : InnerMoveSeeded(c, orders)
    \/ \E c \in Ids : InnerStay(c)
    \/ \E c \in Ids : InnerEnd(c)
    \/ PlayEnd

\* play() with the draws of each step on record
PlaySeeded == PlayFed(SeededHands, ShuffleOrders)

----------------------------------------------------------------------------
(* Spec: a board on which creatures are constructed, die, are removed and  *)
(* play() is called, in any order.                                         *)

Kinds == {<<"herbivore", Small>>, <<"herbivore", Frail>>, <<"predator", Default>>}

Init == InitBoard

Next ==
    \/ \E k \in Kinds, p \in Cells(boardsize) : Construct(k[1], p, k[2])
    \/ \E c \in Ids : CallDie(c)
    \/ \E c \in Ids : CallRemoveFromBoard(c)
    \/ Play

Spec == Init /\ [][Next]_vars

----------------------------------------------------------------------------
(* Direct calls of the methods of a creature, as the tests make them: the  *)
(* creatures are constructed first, then their methods are called.         *)

\* Arguments of change_energy and change_vitality
Amounts == {Q(-200), Q(-10), Q(30)}

\* random.uniform(minVal, maxVal) of randomize_stats, as the fraction of the
\* way from minVal to maxVal
RandomizeDraws == {[k \in Range(mating_stats) |-> f] : f \in {Zero, Rat(1, 2)}}

ApiNext ==
    \/ \E k \in Kinds, p \in Cells(boardsize) :
           called = <<>> /\ Len(cr) < MaxFixtures /\ Construct(k[1], p, k[2])
    \/ \E c \in Ids, amount \in Amounts : CallChangeEnergy(c, amount)
    \/ \E c \in Ids, amount \in Amounts : CallChangeVitality(c, amount)
    \/ \E c \in Ids : CallRest(c)
    \/ \E c \in Ids, u \in RandomizeDraws : CallRandomizeStats(c, u)
    \/ \E c \in Ids, target \in Ids, M \in MutatedSets, normal \in NormalDraws :
           c # target /\ CallReproduce(c, target, M, normal)
    \/ \E c \in Ids : CallEat(c)

ApiSpec == Init /\ [][ApiNext]_vars

\* Creature.move called directly
MoveNext ==
    \/ \E k \in Kinds, p \in Cells(boardsize) :
           called = <<>> /\ Len(cr) < MaxFixtures /\ Construct(k[1], p, k[2])
    \/ \E c \in Ids, d \in Range(get_directions) : CallMove(c, d[1], d[2])

MoveSpec == Init /\ [][MoveNext]_vars

\* Creature.attack and Creature.rest called directly
FightKinds == {<<"creature", Weak>>, <<"creature", Brute>>, <<"predator", Default>>}

FightNext ==
    \/ \E k \in FightKinds, p \in Cells(boardsize) :
           called = <<>> /\ Len(cr) < MaxFixtures /\ Construct(k[1], p, k[2])
    \/ \E c \in Ids : CallRestBeforeFight(c)
    \/ \E c \in Ids, target \in Ids : CallAttack(c, target)

FightSpec == Init /\ [][FightNext]_vars

\* Creature.mate and Creature.try_to_mate called directly
MateKinds ==
    {<<"creature", Weak>>, <<"creature", Alt>>, <<"creature", Sterile>>,
     <<"herbivore", Strong>>, <<"herbivore", Feeble>>, <<"herbivore", Small>>}

\* The indexes random.choice can land on
Picks(c) == 1 .. (IF potential_mates(World, c) = <<>> THEN 1
                  ELSE Len(potential_mates(World, c)))

MateNext ==
    \/ \E k \in MateKinds, p \in Cells(boardsize) :
           called = <<>> /\ Len(cr) < MaxFixtures /\ Construct(k[1], p, k[2])
    \/ \E c \in Ids, target \in Ids, draw1, draw2 \in MateDraws,
          M \in MateMutations, normal \in NormalDraws :
           c # target /\ CallMate(c, target, draw1, draw2, M, normal)
    \/ \E c \in Ids, draw1, draw2 \in MateDraws,
          M \in MateMutations, normal \in NormalDraws :
           /\ Len(called) < MaxMateCalls
           /\ \E pick \in Picks(c) : CallTryToMate(c, pick, draw1, draw2, M, normal)

MateSpec == Init /\ [][MateNext]_vars

\* The methods of a Tile called directly.  The tiles are the four kinds of
\* environments.py and the two of the plant_grow tests.
TestTiles ==
    {Prarie, Forest, Desert, Wasteland, Tile(Q(10), Q(7), Q(2)),
     Tile(Q(10), Q(9), Q(2))}

\* Arguments of change_plant_amount
PlantAmounts == {Q(-100), Q(-3), Rat(-1, 2), Zero, Q(4), Q(100)}

TileInit ==
    /\ boardsize = <<1, 1>>
    /\ tile \in TestTiles
    /\ landscape = create_landscape(boardsize, tile)
    /\ creatures = <<>>
    /\ removed_creatures = <<>>
    /\ cr = <<>>
    /\ exc = "none"
    /\ log = <<>>
    /\ last = <<"Gameboard">>
    /\ pc = "idle"
    /\ snapshot = <<>>
    /\ slot = 0
    /\ can_act = FALSE
    /\ movement_remaining = Zero
    /\ did_mate = FALSE
    /\ turns = <<>>
    /\ plays = 0
    /\ called = <<>>

TileNext ==
    \/ \E p \in DOMAIN landscape : CallPlantGrow(p)
    \/ \E p \in DOMAIN landscape, amount \in PlantAmounts :
           CallChangePlantAmount(p, amount)

TileSpec == TileInit /\ [][TileNext]_vars

\* Gameboard.pos_is_valid called directly, between growths of the tiles, on
\* boards with up to three cells a side
ProbedSizes == {<<1, 1>>, <<2, 1>>, <<2, 3>>, <<3, 2>>}
Probes == (-1 .. 3) \X (-1 .. 3)

BoardInit ==
    /\ boardsize \in ProbedSizes
    /\ tile \in Tiles
    /\ landscape = create_landscape(boardsize, tile)
    /\ creatures = <<>>
    /\ removed_creatures = <<>>
    /\ cr = <<>>
    /\ exc = "none"
    /\ log = <<>>
    /\ last = <<"Gameboard">>
    /\ pc = "idle"
    /\ snapshot = <<>>
    /\ slot = 0
    /\ can_act = FALSE
    /\ movement_remaining = Zero
    /\ did_mate = FALSE
    /\ turns = <<>>
    /\ plays = 0
    /\ called = <<>>

BoardNext ==
    \/ \E pos \in Probes : CallPosIsValid(pos)
    \/ \E p \in DOMAIN landscape : Len(called) < MaxProbes /\ CallPlantGrow(p)

BoardSpec == BoardInit /\ [][BoardNext]_vars

\* Creature.mutate_attribute called directly, with the names of the stats
\* and with names of other attributes
AttributeNames == Range(mating_stats) \cup {"location", "energy", "vitality"}

MutateNext ==
    \/ \E k \in Kinds, p \in Cells(boardsize) :
           called = <<>> /\ Len(cr) < MaxFixtures /\ Construct(k[1], p, k[2])
    \/ \E c \in Ids, attr \in AttributeNames, normal \in NormalDraws :
           CallMutateAttribute(c, attr, normal)

MutateSpec == Init /\ [][MutateNext]_vars

\* The state after Gameboard.__init__ with a size of sizes and a tile of tiles
InitOn(sizes, tiles) ==
    /\ boardsize \in sizes
    /\ tile \in tiles
    /\ landscape = create_landscape(boardsize, tile)
    /\ creatures = <<>>
    /\ removed_creatures = <<>>
    /\ cr = <<>>
    /\ exc = "none"
    /\ log = <<>>
    /\ last = <<"Gameboard">>
    /\ pc = "idle"
    /\ snapshot = <<>>
    /\ slot = 0
    /\ can_act = FALSE
    /\ movement_remaining = Zero
    /\ did_mate = FALSE
    /\ turns = <<>>
    /\ plays = 0
    /\ called = <<>>

\* Creatures that move about, as Player sets them up: constructed, their
\* stats randomized, and moved
RoamSizes == {<<1, 1>>, <<2, 2>>}
RoamKinds == {<<"herbivore", Small>>, <<"creature", Default>>}

RoamInit == InitOn(RoamSizes, {Desert})

RoamNext ==
    \/ \E k \in RoamKinds, p \in Cells(boardsize) :
           called = <<>> /\ Len(cr) < MaxFixtures /\ Construct(k[1], p, k[2])
    \/ \E c \in Ids, u \in RandomizeDraws : CallRandomizeBeforeMove(c, u)
    \/ \E c \in Ids, d \in Range(get_directions) : CallMoveOnce(c, d[1], d[2])
    \/ \E c \in Ids, order \in ShuffleOrders : CallMoveRandomly(c, order)

RoamSpec == RoamInit /\ [][RoamNext]_vars

\* play() on a board set up before the first call, with herbivores of
\* speed 1 and of speed 2.5 among the creatures placed
TurnKinds ==
    {<<"herbivore", Small>>, <<"herbivore", Nimble>>, <<"herbivore", Frail>>,
     <<"herbivore", Meagre>>, <<"predator", Default>>}

TurnNext ==
    \/ \E k \in TurnKinds, p \in Cells(boardsize) :
           plays = 0 /\ Idle /\ Len(cr) < MaxFixtures /\ Construct(k[1], p, k[2])
    \/ Play

\* The steps of a running inner_turn call
InnerTurn ==
    \E c \in Ids :
        \/ InnerDead(c)
        \/ InnerMate(c)
        \/ InnerEat(c)
        \/ InnerMove(c)
        \/ InnerStay(c)
        \/ InnerEnd(c)

\* play() may or may not be called; a call of inner_turn that has begun
\* keeps executing
TurnInit == InitOn(BoardSizes, Tiles \cup {Prarie})

TurnSpec == TurnInit /\ [][TurnNext]_vars /\ WF_vars(InnerTurn)

\* Creatures made corpses by hand, as the decay test makes one, and decay()
\* called on them
CorpseEnergies == {Q(5), Q(DECAY_AMOUNT), Q(30)}

DecayNext ==
    \/ \E k \in Kinds, p \in Cells(boardsize) :
           called = <<>> /\ Len(cr) < MaxFixtures /\ Construct(k[1], p, k[2])
    \/ \E c \in Ids, e \in CorpseEnergies : cr[c].is_alive /\ SetCorpse(c, e)
    \/ \E c \in Ids : CallDecay(c)

DecaySpec == Init /\ [][DecayNext]_vars

\* Predators that consume the creatures set on the board with them: prey
\* with less energy than min_predation_energy, with exactly that much, and
\* with more
HuntKinds ==
    {<<"predator", Default>>, <<"herbivore", Frail>>, <<"herbivore", Small>>,
     <<"herbivore", Strong>>}

HuntNext ==
    \/ \E k \in HuntKinds, p \in Cells(boardsize) :
           called = <<>> /\ Len(cr) < MaxCreatures /\ Construct(k[1], p, k[2])
    \/ \E c \in Ids, target \in Ids : c # target /\ CallConsume(c, target)

HuntSpec == Init /\ [][HuntNext]_vars

\* Player(n_herbivores, n_predators, tile, boardsize, ...) on square and
\* oblong boards
PlayerSizes == {<<1, 1>>, <<2, 2>>, <<1, 2>>, <<2, 1>>, <<1, 3>>, <<3, 2>>}
Coordinates == 0 .. 2

PlayerInit == InitOn(PlayerSizes, {Prarie})

PlayerNext ==
    \/ \E t \in {"herbivore", "predator"}, x \in Coordinates, y \in Coordinates,
          u \in RandomizeDraws : PlayerPlace(t, x, y, u)
    \/ \E t \in {"herbivore", "predator"} : PlayerRaise(t)

PlayerSpec == PlayerInit /\ [][PlayerNext]_vars

\* play() on the boards of TurnSpec, each draw kept with the step it feeds
SeededNext ==
    \/ \E k \in TurnKinds, p \in Cells(boardsize) :
           plays = 0 /\ Idle /\ Len(cr) < MaxFixtures /\ Construct(k[1], p, k[2])
    \/ PlaySeeded

SeededSpec == TurnInit /\ [][SeededNext]_vars

\* Herbivores of explicit stats on a board of Wasteland, and play() called
\* again and again, as Player.execute does.  Sluggish has too little speed
\* to move.  The steps of play() left out are the meal and the mating, which
\* C35 shows these herbivores never come to.
Sluggish == [Meagre EXCEPT !.speed = Rat(1, 2)]
StarveKinds == {Small, Nimble, Meagre, Sluggish}
StarveSizes == {<<2, 1>>, <<2, 2>>}

StarveInit == InitOn(StarveSizes, {Wasteland})

StarvePlay ==
    \/ PlayBeginWithin(MaxStarvePlays)
    \/ \E c \in Ids : TakeTurnHerbivore(c)
    \/ \E c \in Ids : InnerDead(c)
    \/ \E c \in Ids : InnerMove(c)
    \/ \E c \in Ids : InnerStay(c)
    \/ \E c \in Ids : InnerEnd(c)
    \/ PlayEnd

StarveNext ==
    \/ \E st \in StarveKinds, p \in Cells(boardsize) :
           plays = 0 /\ Idle /\ Len(cr) < MaxFixtures /\ Construct("herbivore", p, st)
    \/ StarvePlay

StarveSpec == StarveInit /\ [][StarveNext]_vars /\ WF_vars(StarvePlay)

\* One creature, placed anywhere on a board wide enough for the moves of
\* the move_toward test, and sent toward cells of the board
TowardSizes == {<<6, 4>>, <<2, 5>>}
TowardKinds == {<<"creature", Default>>, <<"herbivore", Frail>>}

TowardInit == InitOn(TowardSizes, {Prarie})

TowardNext ==
    \/ \E k \in TowardKinds, p \in Cells(boardsize) :
           called = <<>> /\ cr = <<>> /\ Construct(k[1], p, k[2])
    \/ \E c \in Ids, loc \in Cells(boardsize) : CallMoveToward(c, loc)

TowardSpec == TowardInit /\ [][TowardNext]_vars

----------------------------------------------------------------------------
(* Properties *)

\* The direct call this step makes, if it makes one
Calls(method, c) ==
    /\ Len(called') = Len(called) + 1
    /\ last'[1] = method
    /\ last'[2] = c

WithinBounds(value, max) == RLe(Zero, value) /\ RLe(value, max)

\* C1: every living creature has 0 <= energy <= maxenergy and
\* 0 <= vitality <= maxvitality in every state reached by construction,
\* randomize_stats, reproduce, rest, change_energy and change_vitality
C1_EnergyAndVitalityWithinBounds ==
    \A c \in Ids :
        cr[c].is_alive =>
            /\ WithinBounds(cr[c].energy, cr[c].maxenergy)
            /\ WithinBounds(cr[c].vitality, cr[c].maxvitality)

\* C2: a single change_energy (change_vitality) call on a living creature
\* makes is_alive false if and only if the resulting energy (vitality) is
\* <= 0, and the creature that died is off the roster and in
\* removed_creatures when the call returns
C2_DiesIffNotPositive ==
    [][\A c \in Ids :
          /\ (Calls("change_energy", c) /\ cr[c].is_alive) =>
                 /\ ~cr'[c].is_alive <=> RLe(cr'[c].energy, Zero)
                 /\ ~cr'[c].is_alive =>
                        /\ c \notin Range(creatures')
                        /\ c \in Range(removed_creatures')
          /\ (Calls("change_vitality", c) /\ cr[c].is_alive) =>
                 /\ ~cr'[c].is_alive <=> RLe(cr'[c].vitality, Zero)
                 /\ ~cr'[c].is_alive =>
                        /\ c \notin Range(creatures')
                        /\ c \in Range(removed_creatures')]_vars

\* How many times creature c is in the list s
Occurrences(s, c) == Cardinality({i \in DOMAIN s : s[i] = c})

OnExactlyOneList(c) == Occurrences(creatures, c) + Occurrences(removed_creatures, c) = 1

\* C3 as stated: after any sequence of construction, play(), die() and
\* remove_from_board(), every creature is exactly once on exactly one of
\* creatures and removed_creatures, and it is on creatures if and only if
\* is_alive is true, so that the assertion of play() never fails
C3_RosteredIffAlive ==
    /\ \A c \in Ids : OnExactlyOneList(c) /\ (c \in Range(creatures) <=> cr[c].is_alive)
    /\ exc # "AssertionError"

\* C3 amended: every creature is exactly once on exactly one of the two
\* lists; a creature on creatures is alive and a dead one is on
\* removed_creatures (remove_from_board() takes a living creature off the
\* roster); the assertion of play() never fails
C3_RosteredAreAlive ==
    /\ \A c \in Ids :
           /\ OnExactlyOneList(c)
           /\ c \in Range(creatures) => cr[c].is_alive
           /\ ~cr[c].is_alive => c \in Range(removed_creatures)
    /\ exc # "AssertionError"

\* A creature died in a play() call and a living one was taken off the board
C3_Witness ==
    /\ plays >= 1
    /\ Idle
    /\ \E c, d \in Ids :
           /\ ~cr[c].is_alive /\ c \in Range(removed_creatures)
           /\ cr[d].is_alive /\ d \in Range(removed_creatures)

\* The creature constructed by this step, an offspring when play() runs
Born(o) == Len(cr') = Len(cr) + 1 /\ o = Len(cr')

\* C4: the participants of a play() call are the creatures on the roster
\* when the call starts; each one alive when its slot is reached takes
\* exactly one turn, in roster order; one that is dead by then does nothing;
\* an offspring is appended to the end of the roster and takes no turn in
\* the call it is born in
C4_TurnsFollowTheRosterAtCallStart ==
    /\ [](/\ Len(turns) <= Len(snapshot)
          /\ \A i \in DOMAIN turns : turns[i].c = snapshot[i]
          /\ pc = "turns" => Len(turns) = slot - 1
          /\ pc = "inner" => Len(turns) = slot
          /\ last = <<"play", "done">> => Len(turns) = Len(snapshot))
    /\ [][/\ plays' = plays + 1 => snapshot' = creatures
          /\ plays' = plays => snapshot' = snapshot
          /\ Len(turns') = Len(turns) + 1 =>
                 /\ turns'[Len(turns')].took <=> cr[turns'[Len(turns')].c].is_alive
                 /\ ~turns'[Len(turns')].took =>
                        UNCHANGED <<cr, creatures, removed_creatures, landscape>>
          /\ \A o \in DOMAIN cr' :
                 (~Idle /\ Born(o)) =>
                     /\ o \notin Range(snapshot')
                     /\ o \in Range(creatures') =>
                            creatures'[Len(creatures')] = o]_vars

\* A play() call has ended, every creature of its starting roster has had
\* its turn, and an offspring born in it is on the roster
C4_Witness ==
    /\ last = <<"play", "done">>
    /\ Len(turns) >= 2
    /\ \E o \in Range(creatures) : o \notin Range(snapshot)

\* C5: a Herbivore or Predator alive when its action loop ends is charged
\* the existence cost exactly once in that turn, and one that died in the
\* loop is not charged
C5_ExistenceCostChargedOnce ==
    \A i \in DOMAIN turns :
        /\ turns[i].ended_alive => turns[i].charged = 1
        /\ ~turns[i].ended_alive => turns[i].charged = 0

\* C6: a creature with no valid movement (boxed in) ends only its own
\* action phase: play() is not left by the error but goes on to the
\* existence cost, the remaining turns and tile growth
C6_BoxedInEndsOnlyTheActionPhase ==
    ~(Idle /\ exc = "IndexError" /\ last[1] = "inner_turn")

InBounds(location) == location \in Cells(boardsize)

NonViable(me) ==
    RLe(me.maxenergy, Zero) \/ RLe(me.maxvitality, Zero) \/ RLt(me.speed, One)

OnRoster(c) == cr[c].is_alive /\ c \in Range(creatures)

\* C7: after reproduce(target) an offspring with maxenergy <= 0,
\* maxvitality <= 0 or speed < 1, in any combination, is dead, off the
\* roster and exactly once in removed_creatures, and reproduce returns
\* normally; every other offspring is alive and on the roster
C7_NonViableOffspringRemovedOnce ==
    [][\A c \in Ids, target \in Ids, o \in DOMAIN cr' :
          (/\ Calls("reproduce", c)
           /\ last'[3] = target
           /\ Born(o)
           /\ OnRoster(c) /\ OnRoster(target)) =>
              /\ exc' = "none"
              /\ NonViable(cr'[o]) =>
                     /\ ~cr'[o].is_alive
                     /\ o \notin Range(creatures')
                     /\ Occurrences(removed_creatures', o) = 1
              /\ ~NonViable(cr'[o]) =>
                     /\ cr'[o].is_alive
                     /\ o \in Range(creatures')]_vars

RMin(a, b) == IF RLe(a, b) THEN a ELSE b

\* What eat() takes from a tile holding plant
Eaten(plant) == RMin(Q(feed_amount), plant)

Accepted(c) == Occurrences(called, <<"move", c, "none">>)

\* C9: a move to a destination outside the board is rejected with an error
\* and changes nothing, so that the movement cost is charged once for
\* every accepted move and never for a rejected one
C9_RejectedMoveChangesNothing ==
    /\ [](\A c \in Ids :
              cr[c].is_alive =>
                  cr[c].energy =
                      RAdd(RDiv(cr[c].maxenergy, Q(2)),
                           RMul(Q(Accepted(c)),
                                RMul(Q(MOVEMENT_COST), RSub(One, cr[c].efficiency)))))
    /\ [][\A c \in Ids :
             Calls("move", c) =>
                 LET new_pos == <<cr[c].location[1] + last'[3],
                                  cr[c].location[2] + last'[4]>>
                 IN  IF InBounds(new_pos)
                         THEN cr'[c].location = new_pos
                     ELSE /\ exc' = "IndexError"
                          /\ UNCHANGED <<cr, creatures, removed_creatures,
                                         landscape>>]_vars

\* Two accepted moves and then a rejected one of the same living creature
C9_Witness ==
    \E c \in Ids :
        /\ called = <<<<"move", c, "none">>, <<"move", c, "none">>,
                      <<"move", c, "IndexError">>>>
        /\ cr[c].is_alive

\* C10: creatures constructed in bounds, after any sequence of play() calls
\* every creature on the roster, offspring included, is in bounds
C10_RosterInBounds == \A c \in Range(creatures) : InBounds(cr[c].location)

\* After a play() call an offspring is on the roster and a parent has moved
\* away from the cell it was born on
C10_Witness ==
    /\ last = <<"play", "done">>
    /\ \E o \in Range(creatures), c \in Range(creatures) :
           /\ o \notin Range(snapshot)
           /\ c \in Range(snapshot)
           /\ cr[c].location # cr[o].location

\* The damage of one hit: attack_power x (1 - the target's defense)
Damage(attacker, victim) == RMul(attacker.attack_power, RSub(One, victim.defense))

\* A living creature on the roster
Fit(c) == cr[c].is_alive /\ c \in Range(creatures)

\* C11: attack(target) by a creature that does not override it, both
\* creatures alive on the roster, lowers the target's vitality by exactly
\* attack_power x (1 - target.defense), charges the attacker
\* |ATTACK_COST| x (1 - its efficiency), and the target is dead when the
\* call returns exactly when its vitality has reached <= 0
C11_AttackDamageAndCost ==
    [][\A c \in Ids, target \in Ids :
          (/\ Calls("attack", c) /\ last'[3] = target
           /\ cr[c].creature_type # "predator"
           /\ c # target /\ Fit(c) /\ Fit(target)) =>
              /\ exc' = "none"
              /\ cr'[target].vitality =
                     RSub(cr[target].vitality, Damage(cr[c], cr[target]))
              /\ cr'[c].energy =
                     RSub(cr[c].energy,
                          RMul(Q(Abs(ATTACK_COST)), RSub(One, cr[c].efficiency)))
              /\ ~cr'[target].is_alive <=> RLe(cr'[target].vitality, Zero)]_vars

\* C12: mate(target) produces no offspring when the fertility of either
\* parent is 0, whatever the two draws in [0,1]; an offspring is produced
\* only when the initiator's draw is above 1 - its fertility and the
\* partner's draw is above 1 - the partner's fertility
C12_NoOffspringWithoutFertility ==
    [][\A c \in Ids, target \in Ids :
          (Calls("mate", c) /\ last'[3] = target) =>
              /\ (cr[c].fertility = Zero \/ cr[target].fertility = Zero) =>
                     Len(cr') = Len(cr)
              /\ Len(cr') > Len(cr) =>
                     /\ RGt(last'[4], RSub(One, cr[c].fertility))
                     /\ RGt(last'[5], RSub(One, cr[target].fertility))]_vars

\* mate() was called with both draws at 1 on a partner of fertility 0 and
\* no creature was added
C12_Witness ==
    \E c \in Ids, target \in Ids :
        /\ last = <<"mate", c, target, One, One>>
        /\ cr[target].fertility = Zero
        /\ cr[c].fertility # Zero
        /\ Len(cr) = 2

\* What one parent pays for a mating: |MATING_COST| x (1 - its efficiency)
Paid(me) == RMul(Q(Abs(MATING_COST)), RSub(One, me.efficiency))

\* C13: a mate(target) call between two living creatures of the roster
\* that produces no offspring changes nothing (no creature added, no
\* energy changed); one that produces an offspring charges each parent
\* |MATING_COST| x (1 - its own efficiency) exactly once
C13_MatingChargedOnlyOnSuccess ==
    [][\A c \in Ids, target \in Ids :
          (Calls("mate", c) /\ last'[3] = target /\ Fit(c) /\ Fit(target)) =>
              IF Len(cr') = Len(cr)
                  THEN UNCHANGED <<cr, creatures, removed_creatures, landscape>>
              ELSE \A p \in {c, target} :
                       /\ Count(log', <<"change_energy", p, Q(MATING_COST)>>) = 1
                       /\ cr'[p].energy = RSub(cr[p].energy, Paid(cr[p]))]_vars

\* A mating produced an offspring and both parents have paid for it
C13_Witness ==
    \E c \in Ids, target \in Ids :
        /\ last[1] = "mate" /\ last[2] = c /\ last[3] = target
        /\ Len(cr) = 3
        /\ cr[c].energy = RSub(RDiv(cr[c].maxenergy, Q(2)), Paid(cr[c]))
        /\ cr[target].energy = RSub(RDiv(cr[target].maxenergy, Q(2)), Paid(cr[target]))

\* The creatures the claim lets c mate with
Eligible(c) ==
    {d \in Range(creatures) :
        /\ d # c
        /\ cr[d].creature_type = cr[c].creature_type
        /\ cr[d].location = cr[c].location
        /\ RGt(cr[d].energy, RAbs(RMul(Q(MATING_COST), RSub(One, cr[d].efficiency))))}

\* C14: for a creature of the roster potential_mates() returns exactly the
\* creatures of the roster of the same creature_type, at its location,
\* other than itself, whose energy is strictly above
\* abs(MATING_COST x (1 - their own efficiency)), each one once
C14_PotentialMates ==
    \A c \in Range(creatures) :
        /\ Range(potential_mates(World, c)) = Eligible(c)
        /\ Len(potential_mates(World, c)) = Cardinality(Eligible(c))

\* c has a potential mate, while a creature of its species on its tile
\* whose energy equals the threshold is not one
C14_Witness ==
    \E c \in Range(creatures), d \in Range(creatures), e \in Range(creatures) :
        /\ d \in Range(potential_mates(World, c))
        /\ e # c
        /\ cr[e].creature_type = cr[c].creature_type
        /\ cr[e].location = cr[c].location
        /\ cr[e].energy = receive_mate_threshold(cr[e])
        /\ e \notin Range(potential_mates(World, c))

\* C15: try_to_mate() of a creature of the roster returns True exactly
\* when potential_mates() is non-empty, whether or not an offspring is
\* produced, and returns False changing nothing when it is empty
C15_TryToMateReturnsWhetherAMateExists ==
    [][\A c \in Range(creatures) :
          Calls("try_to_mate", c) =>
              /\ exc' = "none"
              /\ last'[3] = (potential_mates(World, c) # <<>>)
              /\ potential_mates(World, c) = <<>> =>
                     UNCHANGED <<cr, creatures, removed_creatures, landscape>>]_vars

\* The declared ranges of the 8 heritable stats
InDeclaredRanges(me) ==
    /\ WithinBounds(me.defense, Rat(8, 10))
    /\ WithinBounds(me.efficiency, Rat(8, 10))
    /\ WithinBounds(me.fertility, One)
    /\ WithinBounds(me.aggression, One)
    /\ \A k \in {"maxenergy", "maxvitality", "attack_power", "speed"} :
           RGe(me[k], Zero)

\* The offspring of the mating this step makes, when the call returns
Offspring(o) ==
    /\ Born(o)
    /\ Len(called') = Len(called) + 1
    /\ last'[1] \in {"mate", "try_to_mate"}
    /\ exc' = "none"

\* C16: every offspring that reproduce returns has each of its 8 heritable
\* stats in its declared range and a normalized power score <= 1;
\* normalize_power_stats brings a normalized score above 1 to exactly 1 and
\* leaves the stats of a creature whose score is <= 1 untouched
C16_OffspringInRangeAndNormalized ==
    /\ [](\A c \in Ids :
             IF RGt(power_score(cr[c])[2], One)
                 THEN power_score(normalize_power_stats(cr[c]))[2] = One
             ELSE normalize_power_stats(cr[c]) = cr[c])
    /\ [][\A o \in DOMAIN cr' :
             Offspring(o) =>
                 /\ InDeclaredRanges(cr'[o])
                 /\ RLe(power_score(cr'[o])[2], One)]_vars

\* A mating returned an offspring whose score was brought down to exactly
\* 1: its maxenergy is below the mean of its parents'
C16_Witness ==
    \E c \in Ids, target \in Ids :
        /\ last[1] = "mate" /\ last[2] = c /\ last[3] = target
        /\ exc = "none"
        /\ Len(cr) = 3
        /\ power_score(cr[3])[2] = One
        /\ InDeclaredRanges(cr[3])
        /\ RLt(cr[3].maxenergy, combine_vals(cr[c], cr[target]).maxenergy)

\* C19: combine_vals gives, for each of the 8 heritable stats, the
\* arithmetic mean of the two parents' values, the same whichever parent
\* initiates; reproduce constructs the offspring from these values, so
\* that it starts with the mean maxvitality as its vitality and half the
\* mean maxenergy as its energy
C19_OffspringBuiltFromTheMeans ==
    /\ [](\A c \in Ids, target \in Ids :
             /\ \A k \in Range(mating_stats) :
                    RMul(Q(2), combine_vals(cr[c], cr[target])[k]) =
                        RAdd(cr[c][k], cr[target][k])
             /\ combine_vals(cr[c], cr[target]) = combine_vals(cr[target], cr[c]))
    /\ [][\A c \in Ids, target \in Ids, o \in DOMAIN cr' :
             (Calls("mate", c) /\ last'[3] = target /\ Born(o)) =>
                 /\ RMul(Q(2), cr'[o].vitality) =
                        RAdd(cr[c].maxvitality, cr[target].maxvitality)
                 /\ RMul(Q(4), cr'[o].energy) =
                        RAdd(cr[c].maxenergy, cr[target].maxenergy)]_vars

\* Parents of attack_power 10 and 20 have an offspring of attack_power 15
C19_Witness ==
    \E c \in Ids, target \in Ids :
        /\ last[1] = "mate" /\ last[2] = c /\ last[3] = target
        /\ Len(cr) = 3
        /\ cr[c].attack_power = Q(10)
        /\ cr[target].attack_power = Q(20)
        /\ combine_vals(cr[c], cr[target]).attack_power = Q(15)
        /\ cr[3].attack_power = Q(15)

\* C17: a tile that starts with 0 <= plant_material <= max_plant_material
\* keeps 0 <= plant_material <= max_plant_material through every sequence
\* of plant_grow() and change_plant_amount(delta) calls, whatever the sign
\* and size of delta; plant_grow() adds plant_growth_rate, capped at the
\* maximum
C17_PlantMaterialWithinBounds ==
    /\ [](\A p \in DOMAIN landscape :
             WithinBounds(landscape[p].plant_material,
                          landscape[p].max_plant_material))
    /\ [][\A p \in DOMAIN landscape :
             Calls("plant_grow", p) =>
                 landscape'[p].plant_material =
                     RMin(RAdd(landscape[p].plant_material,
                               landscape[p].plant_growth_rate),
                          landscape[p].max_plant_material)]_vars

\* After a plant_grow call, a change_plant_amount call with a delta below
\* minus the plant material has left a tile of positive maximum at 0
C17_Witness ==
    \E p \in DOMAIN landscape :
        /\ Len(called) >= 2
        /\ last = <<"change_plant_amount", p, Q(-100)>>
        /\ called[Len(called) - 1][1] = "plant_grow"
        /\ landscape[p].max_plant_material # Zero
        /\ landscape[p].plant_material = Zero

\* The tile after one application of its growth
Grown(t) ==
    [t EXCEPT !.plant_material =
                  RMin(RAdd(t.plant_material, t.plant_growth_rate),
                       t.max_plant_material)]

\* C18: every play() call applies the growth of every tile exactly once,
\* when the call ends and every creature turn of the call has resolved;
\* while the turns are running no tile gains plant material, so no
\* creature sees the growth of the current call in its own turn
C18_GrowthOnceAfterAllTurns ==
    [][/\ (~Idle /\ Idle') =>
             /\ slot > Len(snapshot)
             /\ landscape' = [p \in DOMAIN landscape |-> Grown(landscape[p])]
       /\ ~Idle' =>
             \A p \in DOMAIN landscape :
                 RLe(landscape'[p].plant_material, landscape[p].plant_material)]_vars

\* C20: remove_from_board(target) for a target that is not on the roster
\* signals an error and leaves creatures and removed_creatures as they
\* were; for a target on the roster it takes the target off creatures and
\* appends it to removed_creatures
C20_RemoveFromBoard ==
    [][\A c \in Ids :
          Calls("remove_from_board", c) =>
              IF c \in Range(creatures)
                  THEN /\ exc' = "none"
                       /\ creatures' = SelectSeq(creatures, LAMBDA i : i # c)
                       /\ removed_creatures' = Append(removed_creatures, c)
              ELSE /\ exc' # "none"
                   /\ UNCHANGED <<creatures, removed_creatures>>]_vars

\* remove_from_board was called for a creature that had left the roster
\* before, and raised
C20_Witness ==
    \E c \in Ids :
        /\ last = <<"remove_from_board", c>>
        /\ exc = "ValueError"
        /\ c \notin Range(creatures)
        /\ Occurrences(removed_creatures, c) = 1

\* C21: pos_is_valid((x, y)) on a board of size (W, H) is true if and
\* only if 0 <= x <= W-1 and 0 <= y <= H-1; the call changes nothing, and a
\* repeated call with the same input returns what the call before it did
C21_PosIsValidIsPure ==
    [][\A pos \in Probes :
          Calls("pos_is_valid", pos) =>
              /\ last'[3] <=> /\ 0 <= pos[1] /\ pos[1] <= boardsize[1] - 1
                              /\ 0 <= pos[2] /\ pos[2] <= boardsize[2] - 1
              /\ UNCHANGED <<Board, PlayVars, cr, creatures, removed_creatures,
                             landscape>>
              /\ (last[1] = "pos_is_valid" /\ last[2] = pos) => last'[3] = last[3]]_vars

\* pos_is_valid was called twice for the cell just beyond the last column
\* and returned False
C21_Witness ==
    \E pos \in Probes :
        /\ Len(called) = 2
        /\ called[1][1] = "pos_is_valid" /\ called[1][2] = pos
        /\ last = <<"pos_is_valid", pos, FALSE>>
        /\ pos[1] = boardsize[1]
        /\ pos[2] = 0

DeclaredStats ==
    {"maxenergy", "maxvitality", "attack_power", "defense", "efficiency",
     "speed", "fertility", "aggression"}

\* C23: mutate_attribute(name) for a name that is not a declared heritable
\* stat signals an error and leaves every attribute of the creature as it
\* was; for a declared stat it changes no attribute but that stat
C23_MutateAttribute ==
    [][\A c \in Ids, attr \in AttributeNames :
          (Calls("mutate_attribute", c) /\ last'[3] = attr) =>
              /\ UNCHANGED <<creatures, removed_creatures, landscape>>
              /\ \A d \in Ids \ {c} : cr'[d] = cr[d]
              /\ IF attr \in DeclaredStats
                     THEN /\ exc' = "none"
                          /\ \A k \in DOMAIN cr[c] \ {attr} : cr'[c][k] = cr[c][k]
                 ELSE /\ exc' # "none"
                      /\ cr'[c] = cr[c]]_vars

\* mutate_attribute('maxvitality') has changed the stat, and
\* mutate_attribute('location') has then raised
C23_Witness ==
    \E c \in Ids :
        /\ Len(called) = 2
        /\ called[1] = <<"mutate_attribute", c, "none">>
        /\ last = <<"mutate_attribute", c, "location">>
        /\ exc = "KeyError"
        /\ cr[c].maxvitality # cr[c].vitality
        /\ cr[c].energy = RDiv(cr[c].maxenergy, Q(2))

\* What one move costs: |MOVEMENT_COST| x (1 - efficiency)
MoveCost(me) == RMul(Q(Abs(MOVEMENT_COST)), RSub(One, me.efficiency))

\* C24: a move(dx, dy) of a living creature of the roster to a cell of the
\* board changes its location by exactly (dx, dy) and lowers its energy by
\* |MOVEMENT_COST| x (1 - efficiency), charged once, whatever the direction
C24_MoveCostsOneMovementCost ==
    [][\A c \in Ids :
          (/\ Calls("move", c) /\ Fit(c)
           /\ InBounds(<<cr[c].location[1] + last'[3],
                         cr[c].location[2] + last'[4]>>)) =>
              /\ exc' = "none"
              /\ cr'[c].location = <<cr[c].location[1] + last'[3],
                                     cr[c].location[2] + last'[4]>>
              /\ Count(log', <<"change_energy", c, Q(MOVEMENT_COST)>>) = 1
              /\ cr'[c].energy = RSub(cr[c].energy, MoveCost(cr[c]))]_vars

\* The cell one step from location in direction d
Toward(location, d) == <<location[1] + d[1], location[2] + d[2]>>

\* The first direction of order that leads to a cell of the board
FirstValid(location, order) ==
    order[CHOOSE i \in DOMAIN order :
              /\ InBounds(Toward(location, order[i]))
              /\ \A j \in 1 .. i - 1 : ~InBounds(Toward(location, order[j]))]

\* C29: move_randomly of a living creature of the roster, from a cell of
\* the board with at least one neighbouring cell on the board, does not
\* raise: the creature moves exactly one step, to the neighbouring cell of
\* the first drawn direction that is on the board, and one movement cost is
\* charged; the directions rejected before it charge nothing
C29_MoveRandomlyFindsANeighbour ==
    [][\A c \in Ids :
          (/\ Calls("move_randomly", c) /\ Fit(c)
           /\ InBounds(cr[c].location)
           /\ \E d \in Range(get_directions) : InBounds(Toward(cr[c].location, d))) =>
              /\ exc' = "none"
              /\ cr'[c].location = Toward(cr[c].location,
                                          FirstValid(cr[c].location, last'[3]))
              /\ Count(log', <<"move", c, cr'[c].location>>) = 1
              /\ Count(log', <<"change_energy", c, Q(MOVEMENT_COST)>>) = 1
              /\ Len(log') \in {2, 3}]_vars

\* move_randomly has moved a creature after the first direction drawn led
\* off the board
C29_Witness ==
    \E c \in Ids :
        /\ last[1] = "move_randomly" /\ last[2] = c
        /\ exc = "none"
        /\ cr[c].is_alive
        /\ <<"move", c, cr[c].location>> \in Range(log)
        /\ \E from \in Cells(boardsize) :
               /\ ~InBounds(Toward(from, last[3][1]))
               /\ cr[c].location = Toward(from, FirstValid(from, last[3]))

\* The largest whole number not above a rational that is not negative
Floor(q) == q.n \div q.d

\* The larger of the two coordinate differences of two cells
Steps(from, to) ==
    LET dx == Abs(to[1] - from[1])
        dy == Abs(to[2] - from[2])
    IN  IF dx >= dy THEN dx ELSE dy

\* C25: every Herbivore turn terminates; within one turn the herbivore
\* makes at most floor(speed) moves, each of one step, at most one eat and
\* at most one mating attempt, and never both an eat and a mating attempt
C25_TurnsEndWithinTheirBudget ==
    /\ [](\A i \in DOMAIN turns :
             /\ turns[i].moves <= Floor(cr[turns[i].c].speed)
             /\ turns[i].eats <= 1
             /\ turns[i].mates <= 1
             /\ turns[i].eats + turns[i].mates <= 1)
    /\ [][\A c \in Ids :
             Acting(c) =>
                 /\ Steps(cr[c].location, cr'[c].location) <= 1
                 /\ Steps(cr[c].location, cr'[c].location) =
                        turns'[Len(turns)].moves - turns[Len(turns)].moves]_vars
    /\ []<>(pc # "inner")

\* A herbivore of speed 2.5 has ended a turn of two moves, half a move of its
\* speed unused, in a play() that has returned
C25_Witness ==
    \E i \in DOMAIN turns :
        /\ pc = "idle"
        /\ exc = "none"
        /\ cr[turns[i].c].speed = Rat(5, 2)
        /\ turns[i].moves = 2
        /\ turns[i].eats = 0
        /\ turns[i].ended_alive

----------------------------------------------------------------------------
\* The moves, meals and matings of the running turn are those of before
SameActs ==
    /\ turns'[Len(turns)].moves = turns[Len(turns)].moves
    /\ turns'[Len(turns)].eats = turns[Len(turns)].eats
    /\ turns'[Len(turns)].mates = turns[Len(turns)].mates

\* C26: a herbivore whose energy is above MATING_THRESHHOLD * maxenergy and
\* that has a potential mate on its tile makes one mating attempt, which
\* ends the loop of its turn, and neither eats nor moves in the rest of the
\* turn; with no potential mate the same iteration eats, moves or ends the
\* loop as if no mate had been sought
C26_MatingEndsTheTurn ==
    /\ [][\A c \in Ids :
             (/\ Looping(c)
              /\ wants_mate(World, c)
              /\ ~same_species_raises(World, c, cr[c].location)) =>
                 IF potential_mates(World, c) # <<>>
                     THEN /\ turns'[Len(turns)].mates = turns[Len(turns)].mates + 1
                          /\ turns'[Len(turns)].eats = turns[Len(turns)].eats
                          /\ turns'[Len(turns)].moves = turns[Len(turns)].moves
                          /\ cr'[c].location = cr[c].location
                          /\ landscape' = landscape
                          /\ pc' = "inner" => ~can_act'
                 ELSE /\ turns'[Len(turns)].mates = turns[Len(turns)].mates
                      /\ IF can_eat(World, c)
                             THEN /\ turns'[Len(turns)].eats = turns[Len(turns)].eats + 1
                                  /\ ~can_act'
                         ELSE IF RGe(movement_remaining, One)
                             THEN last' = <<"inner_turn", c, "move_randomly">>
                         ELSE SameActs /\ ~can_act']_vars
    /\ [][\A c \in Ids :
             Acting(c) /\ turns[Len(turns)].mates = 1 =>
                 /\ SameActs
                 /\ cr'[c].location = cr[c].location
                 /\ landscape' = landscape]_vars

\* A herbivore has made a mating attempt that produced no offspring, and
\* the loop of its turn is over
C26_Witness ==
    \E c \in Ids :
        /\ Acting(c)
        /\ last = <<"inner_turn", c, "try_to_mate">>
        /\ turns[Len(turns)].mates = 1
        /\ Len(cr) = 2
        /\ ~can_act

----------------------------------------------------------------------------
\* The call noted in the log: try_to_mate of c picked partner and
\* reproduce charged the partner its mating cost
ChargedPartner(c, partner) ==
    /\ Calls("try_to_mate", c)
    /\ partner \in Range(potential_mates(World, c))
    /\ <<"mate", c, partner>> \in Range(log')
    /\ <<"change_energy", partner, Q(MATING_COST)>> \in Range(log')

\* C27: the partner try_to_mate picks among potential_mates is alive after
\* reproduce has charged it the mating cost: its energy is above 0 and it
\* is still on the roster
C27_PartnerSurvivesMating ==
    [][\A c \in Ids, partner \in Ids :
          ChargedPartner(c, partner) =>
              /\ RGt(cr'[partner].energy, Zero)
              /\ cr'[partner].is_alive
              /\ partner \in Range(creatures')
              /\ partner \notin Range(removed_creatures')]_vars

\* try_to_mate has produced an offspring and its partner, charged the
\* mating cost, has less energy than a new creature has and is on the roster
C27_Witness ==
    \E c \in Ids, partner \in Ids :
        /\ last[1] = "try_to_mate" /\ last[2] = c
        /\ <<"mate", c, partner>> \in Range(log)
        /\ <<"change_energy", partner, Q(MATING_COST)>> \in Range(log)
        /\ RLt(cr[partner].energy, RDiv(cr[partner].maxenergy, Q(2)))
        /\ Fit(partner)
        /\ Len(cr) = 3

----------------------------------------------------------------------------
\* C28: a herbivore that seeks a mate in its own turn, its energy above
\* MATING_THRESHHOLD * maxenergy, is alive once reproduce has charged it the
\* mating cost
C28_InitiatorSurvivesMating ==
    [][\A c \in Ids :
          (/\ Looping(c)
           /\ wants_mate(World, c)
           /\ <<"change_energy", c, Q(MATING_COST)>> \in Range(log')) =>
              /\ cr'[c].is_alive
              /\ RGt(cr'[c].energy, Zero)
              /\ c \in Range(creatures')]_vars

----------------------------------------------------------------------------
\* What the tile of creature c holds
Biomass(c) == landscape[cr[c].location].plant_material

\* The roster of this play() is herbivore a, then herbivore b
Grazers(a, b) ==
    /\ a # b
    /\ snapshot = <<a, b>>
    /\ cr[a].creature_type = "herbivore"
    /\ cr[b].creature_type = "herbivore"

\* The running turn has made no move, meal or mating yet
NoActsYet ==
    /\ turns[Len(turns)].moves = 0
    /\ turns[Len(turns)].eats = 0
    /\ turns[Len(turns)].mates = 0

\* C30: two herbivores stand on one tile, neither seeks a mate, and the
\* tile holds p with feed_amount <= p < 2 * feed_amount.  In one play() the
\* earlier of the roster eats feed_amount on that tile; the later one
\* finds less than feed_amount there, and nothing is eaten on that tile in
\* its turn
C30_OnlyTheEarlierGrazerEats ==
    /\ [][\A a \in Ids, b \in Ids :
             (/\ Grazers(a, b)
              /\ Looping(a)
              /\ NoActsYet
              /\ Fit(b)
              /\ cr[a].location = cr[b].location
              /\ ~wants_mate(World, a)
              /\ ~wants_mate(World, b)
              /\ RLe(Q(feed_amount), Biomass(a))
              /\ RLt(Biomass(a), Q(2 * feed_amount))) =>
                 /\ turns'[Len(turns)].eats = 1
                 /\ cr'[a].location = cr[a].location
                 /\ landscape'[cr[a].location].plant_material =
                        RSub(Biomass(a), Q(feed_amount))
                 /\ RLt(landscape'[cr[b].location].plant_material, Q(feed_amount))
                 /\ cr'[b] = cr[b]
                 /\ ~can_act']_vars
    /\ [][\A a \in Ids, b \in Ids :
             (/\ Grazers(a, b)
              /\ Acting(b)
              /\ Len(turns) = 2
              /\ turns[1].eats = 1
              /\ turns[1].moves = 0
              /\ turns[1].mates = 0
              /\ RLt(RAdd(Biomass(a), Q(feed_amount)), Q(2 * feed_amount))) =>
                 /\ RLt(Biomass(a), Q(feed_amount))
                 /\ landscape'[cr[a].location] = landscape[cr[a].location]
                 /\ (Looping(b) /\ NoActsYet /\ cr[b].location = cr[a].location) =>
                        turns'[Len(turns)].eats = 0]_vars

\* On a board of two Prarie tiles the earlier herbivore has eaten where both
\* stood, the later one has moved to the other tile, and the tile they
\* shared has only its growth of one play()
C30_Witness ==
    \E a \in Ids, b \in Ids :
        /\ Grazers(a, b)
        /\ pc = "idle"
        /\ exc = "none"
        /\ plays = 1
        /\ tile = Prarie
        /\ Len(turns) = 2
        /\ turns[1].eats = 1
        /\ turns[1].moves = 0
        /\ turns[2].moves = 1
        /\ cr[b].location # cr[a].location
        /\ landscape[cr[a].location].plant_material = Prarie.plant_growth_rate

----------------------------------------------------------------------------
\* C31: decay() called on a dead creature that is on the roster with no
\* more energy than DECAY_AMOUNT takes it off the roster
C31_DecayRemovesTheCorpse ==
    [][\A c \in Ids :
          (/\ Calls("decay", c)
           /\ ~cr[c].is_alive
           /\ c \in Range(creatures)
           /\ RLe(cr[c].energy, Q(DECAY_AMOUNT))) =>
              c \notin Range(creatures')]_vars

----------------------------------------------------------------------------
RMax(a, b) == IF RGe(a, b) THEN a ELSE b

\* What consume() adds for a prey
Adder(prey) == RMax(Q(min_predation_energy), prey.energy)

----------------------------------------------------------------------------
\* C33: every creature the Player constructor places, on a board of any
\* size (W, H) with W, H >= 1, is created without error and at a location
\* inside the board
C33_PlayerPlacesInBounds ==
    /\ exc = "none"
    /\ \A c \in Ids : pos_is_valid(cr[c].location)


----------------------------------------------------------------------------
\* No step of A leads from this state to another state than the step taken
Fated(A) == \A reached \in {vars'} : ~ENABLED (A /\ vars' # reached)

\* What the step taken asked of the random module, and what it was handed
Asked == IF Len(last') = 4 THEN <<last'[3], last'[4]>> ELSE <<"nothing", <<>>>>

\* The step taken is a step of play()
PlayStep == last'[1] \in {"play", "take_turn", "inner_turn"}

----------------------------------------------------------------------------
\* C35: on a board of at least two cells of tiles without plant material or
\* growth, herbivores of explicit stats with efficiency <= 0.8 never mate
\* (and never find a meal), and play() called again and again leaves the
\* roster empty: every herbivore dies
C35_HerbivoresStarve ==
    /\ [](\A c \in Ids : ~ENABLED InnerMate(c) /\ ~ENABLED InnerEat(c))
    /\ [](\A i \in DOMAIN turns : turns[i].mates = 0 /\ turns[i].eats = 0)
    /\ []<>(creatures = <<>>)

\* Two herbivores, one of them too slow to move, have died in the course of
\* three or more play() calls
C35_Witness ==
    /\ Len(cr) = 2
    /\ creatures = <<>>
    /\ plays >= 3
    /\ \A c \in Ids : ~cr[c].is_alive /\ RLe(cr[c].efficiency, Rat(8, 10))
    /\ \E c \in Ids : RLt(cr[c].speed, One)

----------------------------------------------------------------------------
Magnitude(n) == IF n < 0 THEN -n ELSE n
Signum(n) == IF n < 0 THEN -1 ELSE IF n = 0 THEN 0 ELSE 1
Offset(from, to) == <<to[1] - from[1], to[2] - from[2]>>

\* The Chebyshev distance of two cells
Chebyshev(p, q) ==
    IF Magnitude(q[1] - p[1]) >= Magnitude(q[2] - p[2]) THEN Magnitude(q[1] - p[1])
    ELSE Magnitude(q[2] - p[2])

\* The offset lies along one of the 8 compass directions
OnCompass(d) == d[1] = 0 \/ d[2] = 0 \/ Magnitude(d[1]) = Magnitude(d[2])

\* C36: move_toward(target), for a creature on the board and a target that
\* is another cell of the board, is not rejected as out of bounds, moves the
\* creature one step, and brings it closer to the target by exactly 1 in
\* Chebyshev distance; toward a target that lies along one of the 8 compass
\* directions the step is in that direction
C36_MoveTowardStepsCloser ==
    [][\A c \in Ids, loc \in Cells(boardsize) :
          (/\ Calls("move_toward", c) /\ last'[3] = loc
           /\ pos_is_valid(cr[c].location)
           /\ loc # cr[c].location) =>
              /\ exc' # "IndexError"
              /\ Chebyshev(cr[c].location, cr'[c].location) = 1
              /\ Chebyshev(cr'[c].location, loc) = Chebyshev(cr[c].location, loc) - 1
              /\ OnCompass(Offset(cr[c].location, loc)) =>
                     Offset(cr[c].location, cr'[c].location) =
                         <<Signum(loc[1] - cr[c].location[1]),
                           Signum(loc[2] - cr[c].location[2])>>]_vars

\* The last move of the move_toward test: from (4,2) toward (1,3), which is
\* off every compass direction, the creature has come to (3,2)
C36_Witness ==
    \E c \in Ids :
        /\ Len(called) = 3
        /\ last = <<"move_toward", c, <<1, 3>>>>
        /\ cr[c].location = <<3, 2>>
        /\ exc = "none"

====
